---- MODULE Spec2Model ----
(***************************************************************************)
(* Model of the DFlow MCP server: the outbound REST client                 *)
(* (DFlowAPIClient), the tool catalog and the tool dispatcher of the stdio *)
(* server, and the apiRequest helpers of the serverless variants.          *)
(*                                                                         *)
(* Representation.  A JavaScript value is a record with a type tag; a      *)
(* JavaScript object is the sequence of its own [k, v] entries in property *)
(* order (argument names are identifier strings, for which property order  *)
(* is insertion order).  A URL is [origin, segs, query]: segs is the       *)
(* sequence of path segments, query the sequence of decoded [k, v] string  *)
(* pairs of its search part.                                               *)
(***************************************************************************)
EXTENDS Integers, Sequences, FiniteSets, TLC

VARIABLES
  config,    \* the config handed to createServer (apiUrl), fixed at start
  catalog,   \* per variant, the TOOLS array answered by tools/list
  pc,        \* "idle" | "fetching" | "reading" | "done"
  req,       \* the request being handled
  out,       \* the fetch calls issued while handling req
  timer,     \* the setTimeout of request(): "none"|"armed"|"cleared"|"fired"
  resp,      \* the upstream response once its headers arrived
  outcome,   \* what the awaited client call handed the handler
  result,    \* what the handler gave back for req
  prev,      \* how the previous request ended: "none" | "ok" | "error"
  inflight,  \* per slot, a request one process handles next to others
  globalResult  \* the global `result` handleToolsCall of mcp-v2-sse assigns

vars == <<config, catalog, pc, req, out, timer, resp, outcome, result, prev,
          inflight, globalResult>>

\* ---------------------------------------------------------------- bounds
\* largest number of entries in a tools/call arguments object
MaxArgs == 2
\* requests one process handles at the same time
MaxInflight == 2
\* entries of the arguments object of a request to an HTTP adapter
MaxHttpArgs == 1

\* ------------------------------------------------------ JavaScript values
JSVal(t, n, s, a, o) == [t |-> t, n |-> n, s |-> s, a |-> a, o |-> o]
Undef   == JSVal("undefined", 0, "", <<>>, <<>>)
Null    == JSVal("null", 0, "", <<>>, <<>>)
Num(n)  == JSVal("number", n, "", <<>>, <<>>)
Str(s)  == JSVal("string", 0, s, <<>>, <<>>)
Bool(b) == JSVal("boolean", IF b THEN 1 ELSE 0, "", <<>>, <<>>)
Arr(a)  == JSVal("array", 0, "", a, <<>>)
Obj(o)  == JSVal("object", 0, "", <<>>, o)

Entry(k, v) == [k |-> k, v |-> v]

RECURSIVE Join(_, _)
\* Array.prototype.join over strings
Join(seq, sep) ==
  IF seq = <<>> THEN ""
  ELSE IF Len(seq) = 1 THEN seq[1]
  ELSE seq[1] \o sep \o Join(Tail(seq), sep)

\* String(value), also the conversion of a template literal `${value}`
JSString(v) ==
  CASE v.t = "undefined" -> "undefined"
    [] v.t = "null"      -> "null"
    [] v.t = "number"    -> ToString(v.n)
    [] v.t = "string"    -> v.s
    [] v.t = "boolean"   -> IF v.n = 1 THEN "true" ELSE "false"
    [] v.t = "array"     -> Join(v.a, ",")
    [] OTHER             -> "[object Object]"

\* JavaScript truthiness (value ? a : b, value || b)
Truthy(v) ==
  CASE v.t = "undefined" -> FALSE
    [] v.t = "null"      -> FALSE
    [] v.t = "number"    -> v.n # 0
    [] v.t = "string"    -> v.s # ""
    [] v.t = "boolean"   -> v.n = 1
    [] OTHER             -> TRUE

Quote(s) == "\"" \o s \o "\""

RECURSIVE Spaces(_)
Spaces(n) == IF n = 0 THEN "" ELSE " " \o Spaces(n - 1)

RECURSIVE MapQuote(_)
MapQuote(seq) ==
  IF seq = <<>> THEN <<>> ELSE <<Quote(seq[1])>> \o MapQuote(Tail(seq))

RECURSIVE Prefixed(_, _)
\* every string of seq with pre in front
Prefixed(seq, pre) ==
  IF seq = <<>> THEN <<>> ELSE <<pre \o seq[1]>> \o Prefixed(Tail(seq), pre)

RECURSIVE JSONStringify(_, _, _)
RECURSIVE JSONMembers(_, _, _)
\* the "key": value members of an object; members whose value is undefined
\* are left out, as JSON.stringify does
JSONMembers(o, indent, level) ==
  IF o = <<>> THEN <<>>
  ELSE IF o[1].v.t = "undefined" THEN JSONMembers(Tail(o), indent, level)
  ELSE <<Quote(o[1].k) \o (IF indent = 0 THEN ":" ELSE ": ")
           \o JSONStringify(o[1].v, indent, level)>>
         \o JSONMembers(Tail(o), indent, level)

\* JSON.stringify(value, null, indent) at nesting depth level;
\* indent = 0 is the compact JSON.stringify(value)
JSONStringify(v, indent, level) ==
  LET inner == "\n" \o Spaces(indent * (level + 1))
      outer == "\n" \o Spaces(indent * level)
      Wrap(open, items, close) ==
        IF items = <<>> THEN open \o close
        ELSE IF indent = 0 THEN open \o Join(items, ",") \o close
        ELSE open \o Join(Prefixed(items, inner), ",") \o outer \o close
  IN CASE v.t = "null"    -> "null"
       [] v.t = "number"  -> ToString(v.n)
       [] v.t = "string"  -> Quote(v.s)
       [] v.t = "boolean" -> IF v.n = 1 THEN "true" ELSE "false"
       [] v.t = "array"   -> Wrap("[", MapQuote(v.a), "]")
       [] v.t = "object"  -> Wrap("{", JSONMembers(v.o, indent, level + 1), "}")
       [] OTHER           -> "undefined"

\* ------------------------------------------------------------ JS objects
Keys(o) == {o[i].k : i \in 1..Len(o)}

\* obj.key : the value of the own property, undefined when there is none
Get(o, key) ==
  IF \E i \in 1..Len(o) : o[i].k = key
  THEN o[CHOOSE i \in 1..Len(o) : o[i].k = key].v
  ELSE Undef

\* a destructuring that leaves the named keys in the rest: C20 depends on
\* their removal
Rest_KeepAll(o, named) == o

RECURSIVE Rest(_, _)
\* const { k1, k2, ...rest } = obj : obj without the named keys
Rest(o, named) ==
  IF o = <<>> THEN <<>>
  ELSE IF o[1].k \in named THEN Rest(Tail(o), named)
  ELSE <<o[1]>> \o Rest(Tail(o), named)

\* ------------------------------------------------- DFlowAPIClient (stdio)
\* a URL written as a string: origin, path segments, trailing slash or not
BASE_URL == [origin |-> "https://prediction-markets-api.dflow.net",
             segs |-> <<>>, slash |-> FALSE]
DEFAULT_TIMEOUT == 30000

\* a "pathname + search" string: "/" \o Join(segs, "/") followed by the query
Path(segs, query) == [segs |-> segs, query |-> query]

\* new DFlowAPIClient(config?.apiUrl || BASE_URL, ...): the constructor
\* strips one trailing slash from the base URL
DFlowAPIClient(cfg) ==
  LET apiUrl == IF cfg.hasApiUrl THEN cfg.apiUrl ELSE BASE_URL
  IN [origin |-> apiUrl.origin, segs |-> apiUrl.segs]

\* `${this.baseUrl}${path}` (every path the client is given starts with "/")
makeUrl(baseUrl, path) ==
  [origin |-> baseUrl.origin, segs |-> baseUrl.segs \o path.segs,
   query |-> path.query]

\* a guard that tests only value !== undefined: C3 depends on the null test
IsDefined_NotUndefined(v) == v.t # "undefined"

\* the guard of get() on one params entry
IsDefined(v) == v.t # "undefined" /\ v.t # "null"

RECURSIVE AppendParams(_, _)
\* Object.entries(params).forEach(... url.searchParams.append(key, String(value)))
AppendParams(query, params) ==
  IF params = <<>> THEN query
  ELSE AppendParams(
         IF IsDefined(params[1].v)
         THEN Append(query, Entry(params[1].k, JSString(params[1].v)))
         ELSE query,
         Tail(params))

NoBody == [has |-> FALSE, text |-> ""]

\* request(method, path, options) up to its await: the fetch it issues,
\* with the abort signal of the timer it has just armed
request(baseUrl, method, path, body) ==
  [method |-> method, url |-> makeUrl(baseUrl, path), body |-> body,
   signal |-> TRUE]

\* get(path, params): parse makeUrl(path), append the defined params, then
\* request('GET', url.pathname + url.search)
get(baseUrl, path, hasParams, params) ==
  LET url == makeUrl(baseUrl, path)
      search == IF hasParams THEN AppendParams(url.query, params) ELSE url.query
  IN request(baseUrl, "GET", Path(url.segs, search), NoBody)

\* a post() that forwards data as query parameters: C5 depends on the body
post_AsQuery(baseUrl, path, data) == get(baseUrl, path, TRUE, data.o)

\* post(path, data): body is data ? JSON.stringify(data) : undefined
post(baseUrl, path, data) ==
  request(baseUrl, "POST", path,
          IF Truthy(data) THEN [has |-> TRUE, text |-> JSONStringify(data, 0, 0)]
          ELSE NoBody)

\* what an awaited call ends in
Return(v) == [kind |-> "return", value |-> v, name |-> "", message |-> ""]
Throw(name, message) ==
  [kind |-> "throw", value |-> Undef, name |-> name, message |-> message]

\* a response.json() that falls back to the raw text: C6 depends on the throw
ResponseJson_TextFallback(text) ==
  IF text = "{\"events\":[\"A\",\"B\"]}"
  THEN Return(Obj(<<Entry("events", Arr(<<"A", "B">>))>>))
  ELSE IF text = "null" THEN Return(Null)
  ELSE Return(Str(text))

\* response.json(): the bodies the upstream is modelled to send
JsonBody == "{\"events\":[\"A\",\"B\"]}"
HtmlBody == "<html>"
ResponseJson(text) ==
  IF text = JsonBody THEN Return(Obj(<<Entry("events", Arr(<<"A", "B">>))>>))
  ELSE IF text = "null" THEN Return(Null)
  ELSE Throw("SyntaxError", "Unexpected token in JSON")

\* response.ok
ResponseOk(status) == status \in 200..299

\* the part of request() after the headers arrived and the body was read
AfterResponse(status, text) ==
  IF ~ResponseOk(status)
  THEN Throw("Error", "HTTP " \o ToString(status) \o ": " \o text)
  ELSE ResponseJson(text)

\* a catch block that rethrows whatever it caught: C7 depends on the mapping
requestCatch_Rethrow(error) == error

\* the catch block of request(): an abort is reported as a timeout
requestCatch(error) ==
  IF error.name = "AbortError" THEN Throw("Error", "Request timeout") ELSE error

\* ------------------------------------- apiRequest (Netlify and Deno copies)
NETLIFY_BASE_URL == [origin |-> "https://api.llm.dflow.org", segs |-> <<>>,
                     slash |-> FALSE]

RECURSIVE AppendAll(_, _)
\* Object.entries(params).forEach(... append(key, String(value))), unguarded
AppendAll(query, params) ==
  IF params = <<>> THEN query
  ELSE AppendAll(Append(query, Entry(params[1].k, JSString(params[1].v))),
                 Tail(params))

\* apiRequest(method, path, params) up to its await: new URL(path, BASE_URL),
\* the params as query for GET, as JSON body for POST, no abort signal
apiRequest(method, path, hasParams, params) ==
  [method |-> method,
   url |-> [origin |-> NETLIFY_BASE_URL.origin, segs |-> path.segs,
            query |-> IF hasParams /\ method = "GET"
                      THEN AppendAll(path.query, params) ELSE path.query],
   body |-> IF method = "POST" /\ hasParams
            THEN [has |-> TRUE, text |-> JSONStringify(Obj(params), 0, 0)]
            ELSE NoBody,
   signal |-> FALSE]

\* ------------------------------------------------------- the tool catalogs
\* the names of the TOOLS array of the stdio server, in order
TOOLS ==
  << "get_event", "get_events", "get_market", "get_market_by_mint",
     "get_markets", "get_markets_batch", "get_trades", "get_trades_by_mint",
     "get_forecast_percentile_history",
     "get_forecast_percentile_history_by_mint", "get_event_candlesticks",
     "get_market_candlesticks", "get_market_candlesticks_by_mint",
     "get_live_data", "get_live_data_by_event", "get_live_data_by_mint",
     "get_series", "get_series_by_ticker", "get_outcome_mints",
     "filter_outcome_mints", "get_tags_by_categories",
     "get_filters_by_sports", "search_events" >>

\* the names of the TOOLS array of the Netlify mcp function
NetlifyTOOLS ==
  << "get_events", "get_markets", "get_trades", "get_market_by_mint",
     "get_live_data" >>

\* the names of the TOOLS array of the Deno server
DenoTOOLS == << "get_events", "get_markets" >>

Range(seq) == {seq[i] : i \in 1..Len(seq)}

\* the names of the TOOLS array of the api-mcp function
ApiMcpTOOLS == << "get_events", "get_markets", "get_trades" >>

\* the stdio server, the Netlify mcp function and its predecessor, the
\* api-mcp, mcp-api, mcp-v2-sse and mcp-v2-bootstrap functions, the Deno
\* server
Variants ==
  {"stdio", "netlify", "pred", "apimcp", "mcpapi", "sse", "bootstrap", "deno"}

\* the predecessor and the mcp-api, mcp-v2-sse and mcp-v2-bootstrap
\* functions carry the five tools of the Netlify mcp function
\* catalogs that advertise one tool more than the switches know: C27
\* depends on every advertised tool having a branch
InitialCatalog_ExtraTool ==
  [v \in Variants |->
     Append(CASE v = "stdio" -> TOOLS
              [] v = "apimcp" -> ApiMcpTOOLS
              [] v = "deno" -> DenoTOOLS
              [] OTHER -> NetlifyTOOLS, "no_such_tool")]

InitialCatalog ==
  [v \in Variants |->
     CASE v = "stdio" -> TOOLS
       [] v = "apimcp" -> ApiMcpTOOLS
       [] v = "deno" -> DenoTOOLS
       [] OTHER -> NetlifyTOOLS]

\* --------------------------------------------------- the stdio dispatcher
API == <<"api", "v1">>

Plan(verb, segs, hasParams, params) ==
  [found |-> TRUE, verb |-> verb, path |-> Path(API \o segs, <<>>),
   hasParams |-> hasParams, params |-> params]
NotFound ==
  [found |-> FALSE, verb |-> "", path |-> Path(<<>>, <<>>),
   hasParams |-> FALSE, params |-> <<>>]

\* the switch (name) of the CallToolRequestSchema handler: which client
\* method is called, on which path, with which params (get) or data (post)
Dispatch(name, a) ==
  LET S(k) == JSString(Get(a, k))
  IN CASE name = "get_event" ->
            Plan("get", <<"event", S("event_id")>>, TRUE,
                 <<Entry("withNestedMarkets", Get(a, "withNestedMarkets"))>>)
       [] name = "get_events" -> Plan("get", <<"events">>, TRUE, a)
       [] name = "get_market" ->
            Plan("get", <<"market", S("market_id")>>, FALSE, <<>>)
       [] name = "get_market_by_mint" ->
            Plan("get", <<"market", "by-mint", S("mint_address")>>, FALSE, <<>>)
       [] name = "get_markets" -> Plan("get", <<"markets">>, TRUE, a)
       [] name = "get_markets_batch" ->
            Plan("post", <<"markets", "batch">>, TRUE, a)
       [] name = "get_trades" -> Plan("get", <<"trades">>, TRUE, a)
       [] name = "get_trades_by_mint" ->
            Plan("get", <<"trades", "by-mint", S("mint_address")>>, TRUE,
                 Rest(a, {"mint_address"}))
       [] name = "get_forecast_percentile_history" ->
            Plan("get", <<"event", S("series_ticker"), S("event_id"),
                          "forecast_percentile_history">>, TRUE,
                 Rest(a, {"series_ticker", "event_id"}))
       [] name = "get_forecast_percentile_history_by_mint" ->
            Plan("get", <<"event", "by-mint", S("mint_address"),
                          "forecast_percentile_history">>, TRUE,
                 Rest(a, {"mint_address"}))
       [] name = "get_event_candlesticks" ->
            Plan("get", <<"event", S("ticker"), "candlesticks">>, TRUE,
                 Rest(a, {"ticker"}))
       [] name = "get_market_candlesticks" ->
            Plan("get", <<"market", S("ticker"), "candlesticks">>, TRUE,
                 Rest(a, {"ticker"}))
       [] name = "get_market_candlesticks_by_mint" ->
            Plan("get", <<"market", "by-mint", S("mint_address"),
                          "candlesticks">>, TRUE, Rest(a, {"mint_address"}))
       [] name = "get_live_data" ->
            Plan("get", <<"live_data">>, TRUE,
                 <<Entry("milestoneIds", Get(a, "milestoneIds"))>>)
       [] name = "get_live_data_by_event" ->
            Plan("get", <<"live_data", "by-event", S("event_ticker")>>, TRUE,
                 Rest(a, {"event_ticker"}))
       [] name = "get_live_data_by_mint" ->
            Plan("get", <<"live_data", "by-mint", S("mint_address")>>, TRUE,
                 Rest(a, {"mint_address"}))
       [] name = "get_series" -> Plan("get", <<"series">>, TRUE, a)
       [] name = "get_series_by_ticker" ->
            Plan("get", <<"series", S("series_ticker")>>, FALSE, <<>>)
       [] name = "get_outcome_mints" -> Plan("get", <<"outcome_mints">>, TRUE, a)
       [] name = "filter_outcome_mints" ->
            Plan("post", <<"filter_outcome_mints">>, TRUE, a)
       [] name = "get_tags_by_categories" ->
            Plan("get", <<"tags_by_categories">>, FALSE, <<>>)
       [] name = "get_filters_by_sports" ->
            Plan("get", <<"filters_by_sports">>, FALSE, <<>>)
       [] name = "search_events" -> Plan("get", <<"search">>, TRUE, a)
       [] OTHER -> NotFound

\* a client call that resolves the mint through /api/v1/market/{mint}
\* instead of the by-mint path: C19 depends on the by-mint segment
ClientCall_NoByMint(baseUrl, plan) ==
  get(baseUrl,
      Path(SelectSeq(plan.path.segs, LAMBDA seg : seg # "by-mint"), <<>>),
      plan.hasParams, plan.params)

\* the client call a dispatch branch makes
ClientCall(baseUrl, plan) ==
  IF plan.verb = "post" THEN post(baseUrl, plan.path, Obj(plan.params))
  ELSE get(baseUrl, plan.path, plan.hasParams, plan.params)

\* const toolArgs = args || {}
ToolArgs(args) == IF Truthy(args) THEN args.o ELSE <<>>

\* ------------------------------------------------------- handler results
\* error.data of a JSON-RPC error: absent ("none"), a message text ("text"),
\* { tool, arguments } ("tool"), { available_methods } ("methods") or the
\* endpoint list of the bootstrap function ("endpoints")
Data(kind, tool, arguments, methods) ==
  [kind |-> kind, tool |-> tool, arguments |-> arguments, methods |-> methods]
NoData == Data("none", "", Undef, <<>>)

\* the HTTP part of an answer: statusCode, which Access-Control-Allow-*
\* headers are set ("full": Origin, Methods and Headers; "origin": Origin
\* alone; "none"), the id member of the JSON-RPC body (Undef when the body
\* has none) and error.data
Http(status, cors, id, data) ==
  [status |-> status, cors |-> cors, id |-> id, data |-> data]
NoHttp == Http(0, "none", Undef, NoData)

Result(kind, tools, content, hasIsError, isError, code, message) ==
  [kind |-> kind, tools |-> tools, content |-> content,
   hasIsError |-> hasIsError, isError |-> isError, code |-> code,
   message |-> message, http |-> NoHttp]
NoResult == Result("none", <<>>, <<>>, FALSE, FALSE, 0, "")
Text(text) == [type |-> "text", text |-> text]

\* new McpError(code, message): the SDK prefixes the message with the code
McpError(code, message) ==
  Throw("McpError", "MCP error " \o ToString(code) \o ": " \o message)
MethodNotFound == -32601
InvalidRequest == -32600

\* an exception that leaves a handler of the stdio server
Escapes(error) == Result("throw", <<>>, <<>>, FALSE, FALSE, 0, error.message)

\* a tools/list that loses the last entry: C9 depends on the whole list
ListToolsResult_DropLast(cat) ==
  Result("tools", SubSeq(cat, 1, Len(cat) - 1), <<>>, FALSE, FALSE, 0, "")

\* the ListToolsRequestSchema handler: return { tools: TOOLS }
ListToolsResult(cat) == Result("tools", cat, <<>>, FALSE, FALSE, 0, "")

\* a handler without its catch block: C1 depends on the catch
CallToolResult_NoCatch(name, oc) ==
  IF oc.kind = "return"
  THEN Result("content", <<>>,
              <<Text(JSONStringify(oc.value, 2, 0))>>, FALSE, FALSE, 0, "")
  ELSE Escapes(oc)

\* a catch block that forgets isError: C8 depends on the flag
CallToolResult_NoFlag(name, oc) ==
  Result("content", <<>>,
         <<Text(IF oc.kind = "return" THEN JSONStringify(oc.value, 2, 0)
                ELSE "Error calling " \o name \o ": " \o oc.message)>>,
         FALSE, FALSE, 0, "")

\* the end of the CallToolRequestSchema handler: the success return after
\* the switch, and the catch block around it
CallToolResult(name, oc) ==
  IF oc.kind = "return"
  THEN Result("content", <<>>,
              <<Text(JSONStringify(oc.value, 2, 0))>>, FALSE, FALSE, 0, "")
  ELSE Result("content", <<>>,
              <<Text("Error calling " \o name \o ": " \o oc.message)>>,
              TRUE, TRUE, 0, "")

\* ------------------------------------ prompts and resources of the stdio server
PromptNames == <<"analyze_market_trends", "compare_events">>
EventsUri == "dflow://api/events"
MarketsUri == "dflow://api/markets"
DocsUri == "dflow://api/docs"
ResourceUris == <<EventsUri, MarketsUri, DocsUri>>

\* the ListPromptsRequestSchema and ListResourcesRequestSchema handlers
\* return fixed lists
ListPromptsResult == Result("prompts", PromptNames, <<>>, FALSE, FALSE, 0, "")
ListResourcesResult == Result("resources", ResourceUris, <<>>, FALSE, FALSE, 0, "")

\* args?.key || fallback
OrElse(args, key, fallback) ==
  LET v == IF args.t = "object" THEN Get(args.o, key) ELSE Undef
  IN IF Truthy(v) THEN JSString(v) ELSE fallback

\* the GetPromptRequestSchema handler
GetPromptResult(name, args) ==
  IF name = "analyze_market_trends"
  THEN Result("messages", <<>>,
         <<Text("Analyze prediction market trends for "
                \o OrElse(args, "market_filter", "all markets")
                \o " over the past " \o OrElse(args, "time_range", "24h")
                \o ".")>>, FALSE, FALSE, 0, "")
  ELSE IF name = "compare_events"
  THEN Result("messages", <<>>,
         <<Text("Compare the following prediction market events: "
                \o OrElse(args, "event_ids", "") \o ".")>>,
         FALSE, FALSE, 0, "")
  ELSE Escapes(McpError(InvalidRequest, "Unknown prompt: " \o name))

\* the ReadResourceRequestSchema handler up to its await: the two feeds call
\* apiClient.get(path, { limit: 10 })
ResourceFeed(uri) ==
  IF uri = EventsUri THEN <<"events">>
  ELSE IF uri = MarketsUri THEN <<"markets">> ELSE <<>>
ReadResourceCall(baseUrl, uri) ==
  get(baseUrl, Path(API \o ResourceFeed(uri), <<>>), TRUE,
      <<Entry("limit", Num(10))>>)

\* the returns of the ReadResourceRequestSchema handler; it has no try/catch.
\* The block's uri member echoes the requested uri and is left out.
ReadResourceStatic(uri) ==
  IF uri = DocsUri
  THEN Result("contents", <<>>,
              <<[type |-> "text/markdown", text |-> "# DFlow Prediction Market API"]>>,
              FALSE, FALSE, 0, "")
  ELSE Escapes(McpError(InvalidRequest, "Unknown resource: " \o uri))
ReadResourceResult(uri, oc) ==
  IF oc.kind = "return"
  THEN Result("contents", <<>>,
              <<[type |-> "application/json",
                 text |-> JSONStringify(oc.value, 2, 0)]>>,
              FALSE, FALSE, 0, "")
  ELSE Escapes(oc)

\* ------------------------------------- the Netlify mcp and Deno dispatchers
HttpCall(method, segs, hasParams, params) ==
  [found |-> TRUE,
   call |-> apiRequest(method, Path(API \o segs, <<>>), hasParams, params)]
HttpNotFound ==
  [found |-> FALSE, call |-> apiRequest("GET", Path(<<>>, <<>>), FALSE, <<>>)]

\* the switch (name) of the tools/call branch of the Netlify mcp function
NetlifyDispatch(name, a) ==
  CASE name = "get_events" -> HttpCall("GET", <<"events">>, TRUE, a)
    [] name = "get_markets" -> HttpCall("GET", <<"markets">>, TRUE, a)
    [] name = "get_trades" -> HttpCall("GET", <<"trades">>, TRUE, a)
    [] name = "get_market_by_mint" ->
         HttpCall("GET", <<"markets", "by-mint", JSString(Get(a, "mint"))>>,
                  FALSE, <<>>)
    [] name = "get_live_data" ->
         HttpCall("GET",
                  IF Truthy(Get(a, "event_ticker"))
                  THEN <<"events", "live-data", JSString(Get(a, "event_ticker"))>>
                  ELSE IF Truthy(Get(a, "market_ticker"))
                  THEN <<"markets", "live-data", JSString(Get(a, "market_ticker"))>>
                  ELSE <<"live-data">>,
                  FALSE, <<>>)
    [] OTHER -> HttpNotFound

\* the switch (name) of the tools.call branch of the Deno server
DenoDispatch(name, a) ==
  CASE name = "get_events" -> HttpCall("GET", <<"events">>, TRUE, a)
    [] name = "get_markets" -> HttpCall("GET", <<"markets">>, TRUE, a)
    [] OTHER -> HttpNotFound

\* the switch (name) of the tools.call branch of the api-mcp function
ApiMcpDispatch(name, a) ==
  CASE name = "get_events" -> HttpCall("GET", <<"events">>, TRUE, a)
    [] name = "get_markets" -> HttpCall("GET", <<"markets">>, TRUE, a)
    [] name = "get_trades" -> HttpCall("GET", <<"trades">>, TRUE, a)
    [] OTHER -> HttpNotFound

HttpDispatch(variant, name, a) ==
  CASE variant \in {"netlify", "pred", "sse"} -> NetlifyDispatch(name, a)
    [] variant = "apimcp" -> ApiMcpDispatch(name, a)
    [] OTHER -> DenoDispatch(name, a)

\* which branch of the handler a JSON-RPC method reaches
NetlifyRoute(method) ==
  CASE method = "tools/list" -> "list"
    [] method = "tools/call" -> "call"
    [] method = "tools/describe" -> "describe"
    [] method \in {"getModels", "connectMCPServer", "initialize",
                   "server/info", "health"} -> "info"
    [] OTHER -> "notfound"

\* the predecessor of the Netlify mcp function has no health branch
PredRoute(method) ==
  CASE method = "tools/list" -> "list"
    [] method = "tools/call" -> "call"
    [] method = "tools/describe" -> "describe"
    [] method \in {"getModels", "connectMCPServer", "initialize",
                   "server/info"} -> "info"
    [] OTHER -> "notfound"

\* a routing that knows the slashed spellings only: C14 depends on the
\* dotted ones reaching the same branch
DenoRoute_SlashedOnly(method) ==
  CASE method = "tools/list" -> "list"
    [] method = "tools/call" -> "call"
    [] OTHER -> "notfound"

\* the Deno server and the api-mcp function test both spellings
DenoRoute(method) ==
  CASE method \in {"tools.list", "tools/list"} -> "list"
    [] method \in {"tools.call", "tools/call"} -> "call"
    [] OTHER -> "notfound"

ApiMcpRoute(method) ==
  CASE method \in {"tools.list", "tools/list"} -> "list"
    [] method \in {"tools.call", "tools/call"} -> "call"
    [] OTHER -> "notfound"

\* the switch (request.method) of the mcp-api function
McpApiRoute(method) ==
  CASE method = "initialize" -> "info"
    [] method = "tools/list" -> "list"
    [] method = "tools/call" -> "call"
    [] OTHER -> "notfound"

\* the if-chain on request.method of the mcp-v2-sse function
SseRoute(method) ==
  CASE method = "tools/list" -> "list"
    [] method = "tools/call" -> "call"
    [] OTHER -> "notfound"

HttpRoute(variant, method) ==
  CASE variant = "netlify" -> NetlifyRoute(method)
    [] variant = "pred" -> PredRoute(method)
    [] variant = "apimcp" -> ApiMcpRoute(method)
    [] variant = "mcpapi" -> McpApiRoute(method)
    [] variant = "sse" -> SseRoute(method)
    [] variant = "deno" -> DenoRoute(method)
    [] OTHER -> "notfound"

InternalError == -32603

\* the JSON-RPC answers of the tools/call branch: result.content on success,
\* error -32603 with the message from the catch block
HttpCallResult(oc) ==
  IF oc.kind = "return"
  THEN Result("content", <<>>,
              <<Text(JSONStringify(oc.value, 2, 0))>>, FALSE, FALSE, 0, "")
  ELSE Result("rpcerror", <<>>, <<>>, FALSE, FALSE, InternalError,
              oc.message)

\* the answer to a method no branch handles
MethodNotFoundResult ==
  Result("rpcerror", <<>>, <<>>, FALSE, FALSE, MethodNotFound, "Method not found")

\* ------------------------------------------- the HTTP side of the adapters
\* the event a function is invoked with: httpMethod, requestContext.path
\* (url.pathname in the Deno server) as its segments, and the body: whether
\* JSON.parse accepts it and, when it does, the members of the object it
\* holds: jsonrpc === "2.0", id (Undef when absent), method ("" when
\* absent), whether params is present
Event(httpMethod, path, parses, jsonrpc, id, method, hasParams) ==
  [httpMethod |-> httpMethod, path |-> path, parses |-> parses,
   jsonrpc |-> jsonrpc, id |-> id, method |-> method, hasParams |-> hasParams]
NoEvent == Event("", <<>>, FALSE, FALSE, Undef, "", FALSE)

ParseError == -32700
InvalidParams == -32602

Reply(status, cors, id, data, res) ==
  [res EXCEPT !.http = Http(status, cors, id, data)]

RpcError(code, message) ==
  Result("rpcerror", <<>>, <<>>, FALSE, FALSE, code, message)
\* a result payload other than the catalog or a tool result, by its name
Info(payload) == Result("info", <<>>, <<>>, FALSE, FALSE, 0, payload)
\* a response without body, and one whose body is not a JSON-RPC envelope
Empty == Result("empty", <<>>, <<>>, FALSE, FALSE, 0, "")
Plain(text) == Result("plain", <<>>, <<>>, FALSE, FALSE, 0, text)

\* responseHeaders of a function
Cors(variant) == IF variant \in {"apimcp", "deno"} THEN "none" ELSE "full"

\* the answer to OPTIONS, where the function has a branch for it
Preflight == Reply(200, "full", Undef, NoData, Empty)

\* the answer to a request that is neither OPTIONS nor POST (api-mcp: that
\* is not POST; Deno server: the branches after the POST branch)
NotPost(variant, ev) ==
  CASE variant = "apimcp" ->
         Reply(405, "none", Undef, NoData, Plain("Method not allowed"))
    [] variant = "deno" ->
         IF ev.httpMethod = "GET" /\ ev.path = <<>>
         THEN Reply(200, "none", Undef, NoData, Plain("<!DOCTYPE html>"))
         ELSE IF ev.path = <<"health">>
         THEN Reply(200, "none", Undef, NoData, Plain("{\"status\":\"ok\"}"))
         ELSE Reply(404, "none", Undef, NoData, Plain("Not Found"))
    [] OTHER ->
         Reply(405, "origin", Null, NoData,
               RpcError(InvalidRequest, "Method not allowed"))

\* the catch block around the whole of the POST branch
OuterCatch(variant) ==
  CASE variant \in {"netlify", "pred"} ->
         Reply(200, "origin", Null, Data("text", "", Undef, <<>>),
               RpcError(ParseError, "Parse error or internal error"))
    [] variant \in {"apimcp", "deno"} ->
         Reply(400, "none", Null, NoData, RpcError(ParseError, "Parse error"))
    [] OTHER ->
         Reply(500, "origin", Null, Data("text", "", Undef, <<>>),
               RpcError(InternalError, "Internal error"))

\* a function that reports every exception as an internal error: C11
\* depends on the parse-error answer
ParseFailure_InternalError(variant) ==
  Reply(500, "origin", Null, Data("text", "", Undef, <<>>),
        RpcError(InternalError, "Internal error"))

\* what a body that JSON.parse rejects is answered with: mcp-v2-sse and
\* mcp-v2-bootstrap catch it in an inner try, the others in the outer one
ParseFailure(variant) ==
  IF variant \in {"sse", "bootstrap"}
  THEN Reply(400, "origin", Null, Data("text", "", Undef, <<>>),
             RpcError(ParseError, "Parse error"))
  ELSE OuterCatch(variant)

\* request.id || "bootstrap-response"
BootstrapId(id) == IF Truthy(id) THEN id ELSE Str("bootstrap-response")

\* handleBootstrap(request)
handleBootstrap(ev) ==
  Reply(200, "full", BootstrapId(ev.id), NoData, Info("bootstrap"))

\* startsWith('/mcp/v2/')
StartsWithMcpV2(path) ==
  Len(path) >= 3 /\ path[1] = "mcp" /\ path[2] = "v2"

\* error.data.available_methods of the method-not-found answer
AvailableMethods(variant) ==
  CASE variant = "netlify" ->
         <<"getModels", "connectMCPServer", "initialize", "tools/list",
           "tools/call", "tools/describe", "server/info", "health">>
    [] variant = "pred" ->
         <<"getModels", "connectMCPServer", "initialize", "tools/list",
           "tools/call", "tools/describe", "server/info">>
    [] variant = "mcpapi" -> <<"initialize", "tools/list", "tools/call">>
    [] variant = "sse" -> <<"bootstrap", "tools/list", "tools/call">>
    [] OTHER -> <<>>

\* the answer to a method no branch handles, with the request's id
MethodNotFoundAnswer(variant, ev) ==
  Reply(200, Cors(variant), ev.id,
        CASE variant \in {"netlify", "pred", "mcpapi", "sse"} ->
               Data("methods", "", Undef, AvailableMethods(variant))
          [] variant = "bootstrap" -> Data("endpoints", "", Undef, <<>>)
          [] OTHER -> NoData,
        MethodNotFoundResult)

\* the tools/list answer; handleToolsList of mcp-v2-sse adds transport
\* fields to the result
ListToolsAnswer(variant, ev, cat) ==
  Reply(200, Cors(variant), ev.id, NoData, ListToolsResult(cat))

\* the tools/describe answer of the Netlify mcp function
DescribeAnswer(ev, name, cat) ==
  Reply(200, "full", ev.id, NoData,
        IF name \in Range(cat) THEN Info(name)
        ELSE RpcError(InvalidParams, "Tool not found: " \o name))

\* the exception the switch (name) of a tools/call throws before it awaits
\* anything (kind "none" when it throws nothing): the default branch, and
\* in mcp-api, which reads args without the || {} fallback, a property
\* read on undefined arguments
DispatchThrows(variant, name, args) ==
  CASE variant = "mcpapi" ->
         IF name \notin Range(NetlifyTOOLS)
         THEN Throw("Error", "Unknown tool: " \o name)
         ELSE IF name \in {"get_market_by_mint", "get_live_data"} /\ args = Undef
         THEN Throw("TypeError", "Cannot read properties of undefined")
         ELSE [kind |-> "none", value |-> Undef, name |-> "", message |-> ""]
    [] OTHER ->
         IF HttpDispatch(variant, name, ToolArgs(args)).found
         THEN [kind |-> "none", value |-> Undef, name |-> "", message |-> ""]
         ELSE Throw("Error", "Unknown tool: " \o name)

\* the switch (name) of the tools/call branch of the mcp-api function: args
\* is passed as it came, and get_live_data passes it on as params
McpApiDispatch(name, args) ==
  LET a == ToolArgs(args)
  IN CASE name = "get_events" -> HttpCall("GET", <<"events">>, Truthy(args), a)
       [] name = "get_markets" -> HttpCall("GET", <<"markets">>, Truthy(args), a)
       [] name = "get_trades" -> HttpCall("GET", <<"trades">>, Truthy(args), a)
       [] name = "get_market_by_mint" ->
            HttpCall("GET", <<"markets", "by-mint", JSString(Get(a, "mint"))>>,
                     FALSE, <<>>)
       [] name = "get_live_data" ->
            HttpCall("GET",
                     IF Truthy(Get(a, "event_ticker"))
                     THEN <<"events", "live-data", JSString(Get(a, "event_ticker"))>>
                     ELSE IF Truthy(Get(a, "market_ticker"))
                     THEN <<"markets", "live-data", JSString(Get(a, "market_ticker"))>>
                     ELSE <<"live-data">>,
                     Truthy(args), a)
       [] OTHER -> HttpNotFound

\* the outbound call of a tools/call that does not throw first
DispatchCall(variant, name, args) ==
  IF variant = "mcpapi" THEN McpApiDispatch(name, args).call
  ELSE HttpDispatch(variant, name, ToolArgs(args)).call

\* error.data of the -32603 answer of a tools/call: { tool, arguments } in
\* the Netlify mcp function, its predecessor and mcp-api (which reports
\* args as it came), nothing in api-mcp and the Deno server
ToolData(variant, name, args) ==
  CASE variant \in {"netlify", "pred"} ->
         Data("tool", name, Obj(ToolArgs(args)), <<>>)
    [] variant = "mcpapi" -> Data("tool", name, args, <<>>)
    [] OTHER -> NoData

\* a stream that always reports success at its end: C28 depends on
\* tool_completed.success following the middle event
SseResult_AlwaysSuccess(name, oc) ==
  Result("sse", <<>>,
         << [type |-> "tool_started", text |-> name],
            IF oc.kind = "return"
            THEN [type |-> "tool_result", text |-> JSONStringify(oc.value, 2, 0)]
            ELSE [type |-> "tool_error", text |-> oc.message],
            [type |-> "tool_completed", text |-> "true"] >>,
         FALSE, FALSE, 0, "")

\* createSSEResponse(events): tool_started, tool_result or tool_error,
\* tool_completed, as the text of an event stream
SseResult(name, oc) ==
  Result("sse", <<>>,
         << [type |-> "tool_started", text |-> name],
            IF oc.kind = "return"
            THEN [type |-> "tool_result", text |-> JSONStringify(oc.value, 2, 0)]
            ELSE [type |-> "tool_error", text |-> oc.message],
            [type |-> "tool_completed",
             text |-> IF oc.kind = "return" THEN "true" ELSE "false"] >>,
         FALSE, FALSE, 0, "")

\* the answer of a tools/call once its switch has ended in oc: a JSON-RPC
\* result or error -32603 with the request's id; in mcp-v2-sse the object
\* createSSEResponse returned, serialised as the body, which has no id
ToolsCallAnswer(variant, ev, name, args, oc) ==
  IF variant = "sse"
  THEN Reply(200, "full", Undef, NoData, SseResult(name, oc))
  ELSE Reply(200, Cors(variant), ev.id,
             IF oc.kind = "return" THEN NoData ELSE ToolData(variant, name, args),
             HttpCallResult(oc))

\* what a handler has done when it returns or reaches its await
Done(res) ==
  [awaits |-> FALSE, call |-> apiRequest("GET", Path(<<>>, <<>>), FALSE, <<>>),
   result |-> res]
Awaits(call) == [awaits |-> TRUE, call |-> call, result |-> NoResult]

\* the branches on request.method: tools/list, the discovery methods,
\* tools/describe, tools/call (which reads request.params before its inner
\* try, so that a request without params ends in the outer catch), and the
\* method-not-found answer
Routed(variant, ev, name, args, cat) ==
  LET route == HttpRoute(variant, ev.method)
      thrown == DispatchThrows(variant, name, args)
  IN CASE route = "list" -> Done(ListToolsAnswer(variant, ev, cat))
       [] route = "info" ->
            Done(Reply(200, Cors(variant), ev.id, NoData, Info(ev.method)))
       [] route = "describe" ->
            Done(IF ev.hasParams THEN DescribeAnswer(ev, name, cat)
                 ELSE OuterCatch(variant))
       [] route = "call" ->
            IF ~ev.hasParams THEN Done(OuterCatch(variant))
            ELSE IF thrown.kind = "throw"
            THEN Done(ToolsCallAnswer(variant, ev, name, args, thrown))
            ELSE Awaits(DispatchCall(variant, name, args))
       [] OTHER -> Done(MethodNotFoundAnswer(variant, ev))

\* exports.handler of a Netlify function, handler of the Deno server, up to
\* the return or the await of the outbound call
HttpHandler(variant, ev, name, args, cat) ==
  IF ev.httpMethod = "OPTIONS" /\ variant \notin {"apimcp", "deno"}
  THEN Done(Preflight)
  ELSE IF ev.httpMethod # "POST" THEN Done(NotPost(variant, ev))
  ELSE IF ~ev.parses THEN Done(ParseFailure(variant))
  ELSE CASE variant = "bootstrap" ->
              IF ev.path = <<"mcp", "v2", "bootstrap">>
              THEN Done(handleBootstrap(ev))
              ELSE IF ev.method # "" /\ StartsWithMcpV2(ev.path)
              THEN Done(Reply(200, "full", ev.id, NoData, Info("mcp_v2_supported")))
              ELSE Done(MethodNotFoundAnswer(variant, ev))
         [] variant = "sse" ->
              IF ev.path = <<"mcp", "v2", "bootstrap">>
              THEN Done(handleBootstrap(ev))
              ELSE Routed(variant, ev, name, args, cat)
         [] variant = "mcpapi" ->
              IF ev.jsonrpc /\ ev.method # ""
              THEN Routed(variant, ev, name, args, cat)
              ELSE Done(Reply(200, "full", ev.id, NoData,
                              RpcError(InvalidRequest, "Invalid request format")))
         [] OTHER -> Routed(variant, ev, name, args, cat)

\* ------------------------------------------------------------------ inputs
\* createServer() with no config, and with an apiUrl that has a path prefix
\* and a trailing slash
NoConfig == [hasApiUrl |-> FALSE, apiUrl |-> BASE_URL]
CustomConfig ==
  [hasApiUrl |-> TRUE,
   apiUrl |-> [origin |-> "https://example.test", segs |-> <<"v2">>,
               slash |-> TRUE]]
Configs == {NoConfig, CustomConfig}

\* argument values a JSON-RPC client can send (JSON has no undefined)
ArgValues == {Null, Num(5), Str("A"), Bool(TRUE), Arr(<<"A", "B">>)}

UnknownTool == "no_such_tool"

\* --------------------------- the Claude-Desktop-format function (part_005)
\* the five tools of its TOOLS array
ClaudeTOOLS ==
  <<"get_events", "get_markets", "get_trades", "get_market_by_mint",
    "get_live_data">>

\* Object.keys(claudeDesktopHandlers), in the order of the literal
ClaudeMethods ==
  <<"connectMCPServer", "getModels", "tools/list", "tools/call", "initialize",
    "health">>

\* property names claudeDesktopHandlers inherits from Object.prototype: the
\* first two are functions, __proto__ is the prototype object itself
InheritedFunctions == {"toString", "constructor"}
InheritedNames == InheritedFunctions \cup {"__proto__"}

\* the event the function is invoked with: httpMethod and the body: whether
\* JSON.parse accepts it, whether it holds null, and the members of the
\* object it holds otherwise: type ("" when absent), args ("absent", an
\* "object" that is no array, or an "array" whose first two elements are
\* args0 and args1, Undef past its end) and method ("" when absent)
ClaudeEvent(httpMethod, parses, isNull, type, args, args0, args1, method) ==
  [httpMethod |-> httpMethod, parses |-> parses, isNull |-> isNull,
   type |-> type, args |-> args, args0 |-> args0, args1 |-> args1,
   method |-> method]

\* a Netlify response of the function: statusCode, the CORS headers and the
\* body: which handler built it ("" when none was called), what it holds,
\* its success member ("absent" when the body has none), its error member,
\* the tools and content it lists and its data member
ClaudeAnswer(status, cors, handler, kind, success, error, tools, content, data) ==
  [kind |-> kind, tools |-> tools, content |-> content, hasIsError |-> FALSE,
   isError |-> FALSE, code |-> 0, message |-> error,
   http |-> Http(status, cors, Undef, data),
   handler |-> handler, success |-> success]

\* the outer catch of exports.handler
ClaudeInternalError ==
  ClaudeAnswer(500, "origin", "", "error", "false", "Internal error", <<>>,
               <<>>, Data("text", "", Undef, <<>>))

\* the answer after the dispatch test: no handler was called
ClaudeMethodNotFound ==
  ClaudeAnswer(200, "full", "", "error", "false", "Method not found", <<>>,
               <<>>, Data("methods", "", Undef, ClaudeMethods))

\* const [toolName, args] = request.args; const toolArgs = args || {}
ClaudeToolArgs(ev) == IF Truthy(ev.args1) THEN ev.args1.o ELSE <<>>

\* the switch (toolName) of the tools/call handler; a case matches a string
ClaudeDispatch(toolName, a) ==
  LET name == IF toolName.t = "string" THEN toolName.s ELSE ""
  IN CASE name = "get_events" -> HttpCall("GET", <<"events">>, TRUE, a)
       [] name = "get_markets" -> HttpCall("GET", <<"markets">>, TRUE, a)
       [] name = "get_trades" -> HttpCall("GET", <<"trades">>, TRUE, a)
       [] name = "get_market_by_mint" ->
            HttpCall("GET", <<"markets", "by-mint", JSString(Get(a, "mint"))>>,
                     FALSE, <<>>)
       [] name = "get_live_data" ->
            HttpCall("GET",
                     IF Truthy(Get(a, "event_ticker"))
                     THEN <<"events", "live-data",
                            JSString(Get(a, "event_ticker"))>>
                     ELSE IF Truthy(Get(a, "market_ticker"))
                     THEN <<"markets", "live-data",
                            JSString(Get(a, "market_ticker"))>>
                     ELSE <<"live-data">>,
                     FALSE, <<>>)
       [] OTHER -> HttpNotFound

\* the tools/call handler once its switch has ended in oc: the result as
\* one text block, or in its catch block the error with the tool and the
\* arguments it was called with
ClaudeToolsCall(ev, oc) ==
  IF oc.kind = "return"
  THEN ClaudeAnswer(200, "full", "tools/call", "content", "true", "", <<>>,
                    <<Text(JSONStringify(oc.value, 2, 0))>>, NoData)
  ELSE ClaudeAnswer(200, "full", "tools/call", "error", "false", oc.message,
                    <<>>, <<>>,
                    Data("tool", ev.args0, Obj(ClaudeToolArgs(ev)), <<>>))

\* claudeDesktopHandlers[methodName](request) for the handlers that do not
\* call the upstream, and for the functions found on the prototype:
\* toString gives the string "[object Object]", constructor the request
ClaudeHandlerResult(ev) ==
  CASE ev.method \in {"connectMCPServer", "tools/list"} ->
         ClaudeAnswer(200, "full", ev.method, ev.method, "true", "",
                      ClaudeTOOLS, <<>>, NoData)
    [] ev.method = "health" ->
         ClaudeAnswer(200, "full", ev.method, ev.method, "true", "", <<>>,
                      <<>>, Data("methods", "", Undef, ClaudeMethods))
    [] ev.method = "toString" ->
         ClaudeAnswer(200, "full", ev.method, "string", "absent",
                      "[object Object]", <<>>, <<>>, NoData)
    [] ev.method = "constructor" ->
         ClaudeAnswer(200, "full", ev.method, "request", "absent", "", <<>>,
                      <<>>, NoData)
    [] OTHER ->
         ClaudeAnswer(200, "full", ev.method, ev.method, "true", "", <<>>,
                      <<>>, NoData)

\* the dispatch test: request.args && Array.isArray(request.args) &&
\* request.method && request.type === 'rpc', then the lookup
\* claudeDesktopHandlers[methodName], which also finds inherited properties
ClaudeLooksUp(ev) ==
  ev.args = "array" /\ ev.method # "" /\ ev.type = "rpc"

ClaudeFinds(method) ==
  method \in Range(ClaudeMethods) \cup InheritedNames

\* exports.handler of the function, up to the return or the await of the
\* outbound call
ClaudeHandler(ev) ==
  IF ev.httpMethod = "OPTIONS"
  THEN Done(ClaudeAnswer(200, "full", "", "empty", "absent", "", <<>>, <<>>,
                         NoData))
  ELSE IF ev.httpMethod # "POST"
  THEN Done(ClaudeAnswer(405, "origin", "", "error", "false",
                         "Method not allowed", <<>>, <<>>, NoData))
  ELSE IF ~ev.parses
  THEN Done(ClaudeAnswer(400, "origin", "", "error", "false",
                         "Invalid JSON format", <<>>, <<>>, NoData))
  ELSE IF ev.isNull THEN Done(ClaudeInternalError)
  ELSE IF ClaudeLooksUp(ev) /\ ClaudeFinds(ev.method)
  THEN IF ev.method \notin Range(ClaudeMethods) \cup InheritedFunctions
       THEN Done(ClaudeInternalError)
       ELSE IF ev.method = "tools/call"
       THEN LET d == ClaudeDispatch(ev.args0, ClaudeToolArgs(ev))
            IN IF d.found THEN Awaits(d.call)
               ELSE Done(ClaudeToolsCall(
                           ev, Throw("Error", "Unknown tool: "
                                              \o JSString(ev.args0))))
       ELSE Done(ClaudeHandlerResult(ev))
  ELSE Done(ClaudeMethodNotFound)


\* the argument names a dispatch branch reads by name
NamedKeys(variant, name) ==
  IF variant = "stdio"
  THEN CASE name = "get_event" -> {"event_id", "withNestedMarkets"}
         [] name = "get_market" -> {"market_id"}
         [] name \in {"get_market_by_mint", "get_trades_by_mint",
                      "get_forecast_percentile_history_by_mint",
                      "get_market_candlesticks_by_mint",
                      "get_live_data_by_mint"} -> {"mint_address"}
         [] name = "get_forecast_percentile_history" ->
              {"series_ticker", "event_id"}
         [] name \in {"get_event_candlesticks", "get_market_candlesticks"} ->
              {"ticker"}
         [] name = "get_live_data" -> {"milestoneIds"}
         [] name = "get_live_data_by_event" -> {"event_ticker"}
         [] name = "get_series_by_ticker" -> {"series_ticker"}
         [] name = "get_markets_batch" -> {"tickers"}
         [] name = "filter_outcome_mints" -> {"addresses"}
         [] OTHER -> {}
  ELSE CASE name = "get_market_by_mint" -> {"mint"}
         [] name = "get_live_data" -> {"event_ticker", "market_ticker"}
         [] OTHER -> {}

ArgKeys(variant, name) == NamedKeys(variant, name) \cup {"limit", "cursor"}

\* the objects with at most MaxArgs entries over the given keys
Objects(keys) ==
  LET E == {Entry(k, v) : k \in keys, v \in ArgValues}
  IN UNION {{o \in [1..n -> E] : \A i, j \in 1..n : i # j => o[i].k # o[j].k}
            : n \in 0..MaxArgs}

\* params.arguments: absent, or an object
Arguments(variant, name) ==
  {Undef} \cup {Obj(o) : o \in Objects(ArgKeys(variant, name))}

\* the objects a request to an HTTP adapter carries as params.arguments
HttpArguments(variant, name) ==
  {Undef} \cup
  {Obj(o) : o \in UNION {{o \in [1..n -> {Entry(k, v) :
                                             k \in ArgKeys(variant, name),
                                             v \in ArgValues}] :
                            \A i, j \in 1..n : i # j => o[i].k # o[j].k}
                         : n \in 0..MaxHttpArgs}}

\* the methods whose branch reads params.name
ReadsParams(method) == method \in {"tools/call", "tools.call", "tools/describe"}

\* the id member of a request: absent, null, numbers and strings, the
\* falsy 0 and "" among them
Ids == {Undef, Null, Num(0), Num(1), Str(""), Str("a")}

\* the method member of a request ("" when absent)
RpcMethods ==
  {"tools/list", "tools.list", "tools/call", "tools.call", "getModels",
   "connectMCPServer", "initialize", "tools/describe", "server/info", "health",
   "bootstrap", "no/such", ""}

EventPaths(variant) ==
  IF variant \in {"sse", "bootstrap"}
  THEN {<<"mcp">>, <<"mcp", "v2", "bootstrap">>, <<"mcp", "v2", "tools">>}
  ELSE {<<"mcp">>}

\* a body JSON.parse rejects, sent with the given HTTP method
Malformed(httpMethod, path) ==
  Event(httpMethod, path, FALSE, FALSE, Undef, "", FALSE)

\* the events with a body that holds a JSON object; jsonrpc is "2.0" but
\* for the function that tests it
ParsedEvents(variant, httpMethods) ==
  {Event(m, p, TRUE, j, id, method, hasParams) :
     m \in httpMethods, p \in EventPaths(variant),
     j \in IF variant = "mcpapi" THEN BOOLEAN ELSE {TRUE},
     id \in Ids, method \in RpcMethods, hasParams \in BOOLEAN}

HttpVariants == Variants \ {"stdio"}

\* the method member of a request to the Claude-Desktop-format function
ClaudeRequestMethods ==
  Range(ClaudeMethods) \cup InheritedNames \cup {"tools.call", "no/such", ""}

\* the first two elements of request.args of a tools/call: the tool name
\* (absent, or a string) and the arguments (absent, null, or an object)
ClaudeArgs0 == {Undef} \cup {Str(name) : name \in Range(ClaudeTOOLS) \cup {UnknownTool}}
ClaudeArgs1(args0) ==
  IF args0 = Undef THEN {Undef}
  ELSE {Null} \cup HttpArguments("netlify", args0.s)

\* the events the function is invoked with: a preflight, a GET, a body
\* JSON.parse rejects, the body null, and the bodies that hold an object
ClaudeEvents ==
  {ClaudeEvent(m, TRUE, FALSE, "rpc", "array", Undef, Undef, "health") :
     m \in {"OPTIONS", "GET"}}
  \cup {ClaudeEvent("POST", FALSE, FALSE, "", "absent", Undef, Undef, ""),
        ClaudeEvent("POST", TRUE, TRUE, "", "absent", Undef, Undef, "")}
  \cup {ClaudeEvent("POST", TRUE, FALSE, type, args, Undef, Undef, method) :
          type \in {"rpc", "call", ""}, args \in {"absent", "object", "array"},
          method \in ClaudeRequestMethods}
  \cup UNION {{ClaudeEvent("POST", TRUE, FALSE, "rpc", "array", args0, args1,
                           "tools/call") : args1 \in ClaudeArgs1(args0)}
              : args0 \in ClaudeArgs0}

StdioNames == Range(TOOLS) \cup {UnknownTool}
HttpNames == Range(NetlifyTOOLS) \cup {"get_event", UnknownTool}
HttpMethods == {"tools/list", "tools.list", "tools/call", "tools.call", "no/such"}
PromptArgs ==
  {Undef, Obj(<<Entry("market_filter", Str("A"))>>),
   Obj(<<Entry("event_ids", Str("A")), Entry("time_range", Str("7d"))>>)}
Statuses == {200, 404}
Bodies == {JsonBody, "null", HtmlBody}

\* ------------------------------------------------------------------- state
Req(variant, method, name, args, uri) ==
  [variant |-> variant, method |-> method, name |-> name, args |-> args,
   uri |-> uri, event |-> NoEvent]
\* a request to an HTTP adapter, with the event it came in
HttpReq(variant, ev, name, args) ==
  [Req(variant, ev.method, name, args, "") EXCEPT !.event = ev]
NoReq == Req("", "", "", Undef, "")
NoResp == [status |-> 0, hasBody |-> FALSE, body |-> ""]
NoOutcome == [kind |-> "none", value |-> Undef, name |-> "", message |-> ""]

Issue(call) ==
  [method |-> call.method, url |-> call.url, body |-> call.body,
   signal |-> call.signal, state |-> "pending"]

Failed(r) == r.kind \in {"throw", "rpcerror"} \/ r.isError

\* a slot no request occupies
IdleSlot ==
  [pc |-> "idle", req |-> NoReq, out |-> <<>>, timer |-> "none",
   resp |-> NoResp, outcome |-> NoOutcome, result |-> NoResult, among |-> 0]

Slots == 1..MaxInflight

Init ==
  /\ inflight = [s \in Slots |-> IdleSlot]
  /\ globalResult = Undef
  /\ config \in Configs
  /\ catalog = InitialCatalog
  /\ pc = "idle"
  /\ req = NoReq
  /\ out = <<>>
  /\ timer = "none"
  /\ resp = NoResp
  /\ outcome = NoOutcome
  /\ result = NoResult
  /\ prev = "none"

baseUrl == DFlowAPIClient(config)

\* a handler that answers without awaiting anything
Answer(r, res) ==
  /\ pc = "idle"
  /\ req' = r
  /\ result' = res
  /\ pc' = "done"
  /\ UNCHANGED <<config, catalog, inflight, globalResult, out, timer, resp, outcome, prev>>

\* a handler that reaches its await on fetch; request() arms its timer
\* before the fetch, apiRequest() has none
Await(r, call) ==
  /\ pc = "idle"
  /\ req' = r
  /\ out' = Append(out, Issue(call))
  /\ timer' = IF call.signal THEN "armed" ELSE "none"
  /\ pc' = "fetching"
  /\ UNCHANGED <<config, catalog, inflight, globalResult, resp, outcome, result, prev>>

\* stdio: tools/list
ListTools ==
  Answer(Req("stdio", "tools/list", "", Undef, ""),
         ListToolsResult(catalog["stdio"]))

\* a handler that checks the arguments its branch reads by name before it
\* calls upstream: C25 depends on there being no such check
CallTool_Validates(name, args) ==
  LET r == Req("stdio", "tools/call", name, args, "")
      plan == Dispatch(name, ToolArgs(args))
  IN IF plan.found /\ NamedKeys("stdio", name) \subseteq Keys(ToolArgs(args))
     THEN Await(r, ClientCall(baseUrl, plan))
     ELSE Answer(r, CallToolResult(name,
                      McpError(InvalidRequest, "Invalid arguments for " \o name)))

\* stdio: tools/call, up to the await of the client call or to the
\* default branch, whose exception the catch block turns into a result
CallTool(name, args) ==
  LET r == Req("stdio", "tools/call", name, args, "")
      plan == Dispatch(name, ToolArgs(args))
  IN IF plan.found
     THEN Await(r, ClientCall(baseUrl, plan))
     ELSE Answer(r, CallToolResult(name,
                      McpError(MethodNotFound, "Unknown tool: " \o name)))

\* stdio: prompts/list, prompts/get, resources/list
ListPrompts == Answer(Req("stdio", "prompts/list", "", Undef, ""), ListPromptsResult)
GetPrompt(name, args) ==
  Answer(Req("stdio", "prompts/get", name, args, ""), GetPromptResult(name, args))
ListResources ==
  Answer(Req("stdio", "resources/list", "", Undef, ""), ListResourcesResult)

\* stdio: resources/read
ReadResource(uri) ==
  LET r == Req("stdio", "resources/read", "", Undef, uri)
  IN IF uri \in {EventsUri, MarketsUri}
     THEN Await(r, ReadResourceCall(baseUrl, uri))
     ELSE Answer(r, ReadResourceStatic(uri))

\* Netlify mcp function and Deno server: tools/list
HttpListTools(variant, method) ==
  /\ HttpRoute(variant, method) = "list"
  /\ Answer(Req(variant, method, "", Undef, ""), ListToolsResult(catalog[variant]))

\* Netlify mcp function and Deno server: tools/call
HttpCallTool(variant, method, name, args) ==
  LET r == Req(variant, method, name, args, "")
      d == HttpDispatch(variant, name, ToolArgs(args))
  IN /\ HttpRoute(variant, method) = "call"
     /\ IF d.found THEN Await(r, d.call)
        ELSE Answer(r, HttpCallResult(Throw("Error", "Unknown tool: " \o name)))

\* Netlify mcp function and Deno server: a method no branch handles
HttpMethodNotFound(variant, method) ==
  /\ HttpRoute(variant, method) = "notfound"
  /\ Answer(Req(variant, method, "", Undef, ""), MethodNotFoundResult)

\* an HTTP adapter answers an event of any HTTP method and body
HttpRequest(variant, ev, name, args) ==
  LET h == HttpHandler(variant, ev, name, args, catalog[variant])
      r == HttpReq(variant, ev, name, args)
  IN IF h.awaits THEN Await(r, h.call) ELSE Answer(r, h.result)

\* a request to the Claude-Desktop-format function
ClaudeRequest(ev) ==
  LET h == ClaudeHandler(ev)
      r == [Req("claude", ev.method, JSString(ev.args0), ev.args1, "")
              EXCEPT !.event = ev]
  IN IF h.awaits THEN Await(r, h.call) ELSE Answer(r, h.result)

\* the continuation of the handler that awaits the outbound call
Continue(oc) ==
  IF req.variant = "claude" THEN ClaudeToolsCall(req.event, oc)
  ELSE IF req.variant # "stdio"
  THEN IF req.event = NoEvent THEN HttpCallResult(oc)
       ELSE ToolsCallAnswer(req.variant, req.event, req.name, req.args, oc)
  ELSE IF req.method = "resources/read" THEN ReadResourceResult(req.uri, oc)
  ELSE CallToolResult(req.name, oc)

\* what request() / apiRequest() hands its caller when the awaited fetch or
\* body read ends in error: request() passes it through its catch block
Rethrown(error) == IF req.variant = "stdio" THEN requestCatch(error) ELSE error

Finish(ended, callState) ==
  /\ outcome' = IF ended.kind = "throw" THEN Rethrown(ended) ELSE ended
  /\ result' = Continue(outcome')
  /\ out' = [out EXCEPT ![Len(out)].state = callState]
  /\ pc' = "done"

\* the upstream answers: fetch resolves, request() clears its timer
FetchResponse(status) ==
  /\ pc = "fetching"
  /\ resp' = [status |-> status, hasBody |-> FALSE, body |-> ""]
  /\ timer' = IF timer = "armed" THEN "cleared" ELSE timer
  /\ out' = [out EXCEPT ![Len(out)].state = "responded"]
  /\ pc' = "reading"
  /\ UNCHANGED <<config, catalog, inflight, globalResult, req, outcome, result, prev>>

\* a client that issues the call once more after a transport failure:
\* C2 depends on there being no retry
FetchFail_Retry ==
  /\ pc = "fetching"
  /\ IF Len(out) < 2
     THEN /\ out' = Append([out EXCEPT ![Len(out)].state = "failed"],
                           Issue(out[Len(out)]))
          /\ UNCHANGED <<pc, timer, outcome, result>>
     ELSE /\ timer' = IF timer = "armed" THEN "cleared" ELSE timer
          /\ Finish(Throw("TypeError", "fetch failed"), "failed")
  /\ UNCHANGED <<config, catalog, inflight, globalResult, req, resp, prev>>

\* the transport fails before any response: fetch rejects, the catch block
\* of request() clears the timer
FetchFail ==
  /\ pc = "fetching"
  /\ timer' = IF timer = "armed" THEN "cleared" ELSE timer
  /\ Finish(Throw("TypeError", "fetch failed"), "failed")
  /\ UNCHANGED <<config, catalog, inflight, globalResult, req, resp, prev>>

\* the timer of request() fires first: controller.abort() cancels the fetch,
\* which rejects with an AbortError
TimerFire ==
  /\ pc = "fetching"
  /\ timer = "armed"
  /\ timer' = "fired"
  /\ Finish(Throw("AbortError", "The operation was aborted."), "aborted")
  /\ UNCHANGED <<config, catalog, inflight, globalResult, req, resp, prev>>

\* the body arrives: response.text() on a non-2xx status, response.json()
\* otherwise
BodyRead(text) ==
  /\ pc = "reading"
  /\ resp' = [resp EXCEPT !.hasBody = TRUE, !.body = text]
  /\ Finish(AfterResponse(resp.status, text), "complete")
  /\ UNCHANGED <<config, catalog, inflight, globalResult, req, timer, prev>>

\* the transport fails while the body is read
BodyFail ==
  /\ pc = "reading"
  /\ Finish(Throw("TypeError", "terminated"), "failed")
  /\ UNCHANGED <<config, catalog, inflight, globalResult, req, timer, resp, prev>>

\* a server that ends its process after a failed request, as main().catch
\* does for a failed start: C21 depends on the process staying up
Respond_ExitOnError ==
  /\ pc = "done"
  /\ prev' = IF Failed(result) THEN "error" ELSE "ok"
  /\ pc' = IF Failed(result) THEN "exited" ELSE "idle"
  /\ req' = NoReq
  /\ out' = <<>>
  /\ timer' = "none"
  /\ resp' = NoResp
  /\ outcome' = NoOutcome
  /\ result' = NoResult
  /\ UNCHANGED <<config, catalog, inflight, globalResult>>

\* the answer is sent; the server waits for the next request
Respond ==
  /\ pc = "done"
  /\ prev' = IF Failed(result) THEN "error" ELSE "ok"
  /\ pc' = "idle"
  /\ req' = NoReq
  /\ out' = <<>>
  /\ timer' = "none"
  /\ resp' = NoResp
  /\ outcome' = NoOutcome
  /\ result' = NoResult
  /\ UNCHANGED <<config, catalog, inflight, globalResult>>

Next ==
  \/ ListTools
  \/ pc = "idle" /\ \E name \in StdioNames :
       \E args \in Arguments("stdio", name) : CallTool(name, args)
  \/ ListPrompts
  \/ pc = "idle" /\ \E name \in Range(PromptNames) \cup {"no_such_prompt"} :
       \E args \in PromptArgs : GetPrompt(name, args)
  \/ ListResources
  \/ pc = "idle" /\ \E uri \in Range(ResourceUris) \cup {"dflow://api/none"} :
       ReadResource(uri)
  \/ pc = "idle" /\ \E variant \in {"netlify", "deno"} :
       \E method \in HttpMethods : HttpListTools(variant, method)
  \/ pc = "idle" /\ \E variant \in {"netlify", "deno"} :
       \E method \in {m \in HttpMethods : HttpRoute(variant, m) = "call"} :
         \E name \in HttpNames : \E args \in Arguments(variant, name) :
           HttpCallTool(variant, method, name, args)
  \/ pc = "idle" /\ \E variant \in {"netlify", "deno"} :
       \E method \in HttpMethods : HttpMethodNotFound(variant, method)
  \/ \E status \in Statuses : FetchResponse(status)
  \/ FetchFail
  \/ TimerFire
  \/ \E text \in Bodies : BodyRead(text)
  \/ BodyFail
  \/ Respond

Spec == Init /\ [][Next]_vars

\* the HTTP adapters alone, each request with its event: a request that is
\* not a POST, a POST whose body does not parse, a POST that needs no tool
\* name, and a POST of tools/call or tools/describe with its params
HttpNext ==
  \/ pc = "idle" /\ \E variant \in HttpVariants :
       \E ev \in {Malformed(m, p) : m \in {"OPTIONS", "GET", "POST"},
                                     p \in EventPaths(variant)}
                  \cup ParsedEvents(variant, {"OPTIONS", "GET"}) :
         HttpRequest(variant, ev, "", Undef)
  \/ pc = "idle" /\ \E variant \in HttpVariants :
       \E ev \in ParsedEvents(variant, {"POST"}) :
         \E name \in IF ~ev.hasParams THEN {""}
                      ELSE IF ReadsParams(ev.method) THEN HttpNames
                      ELSE {"get_events"} :
           \E args \in IF ev.hasParams /\ ReadsParams(ev.method)
                        THEN HttpArguments(variant, name) ELSE {Undef} :
             HttpRequest(variant, ev, name, args)
  \/ \E status \in Statuses : FetchResponse(status)
  \/ FetchFail
  \/ \E text \in Bodies : BodyRead(text)
  \/ BodyFail
  \/ Respond

\* the HTTP adapters have no configuration: the client of the stdio server
\* stays as createServer() without config makes it
HttpInit == Init /\ config = NoConfig

HttpSpec == HttpInit /\ [][HttpNext]_vars

ClaudeNext ==
  \/ pc = "idle" /\ \E ev \in ClaudeEvents : ClaudeRequest(ev)
  \/ \E status \in Statuses : FetchResponse(status)
  \/ FetchFail
  \/ \E text \in Bodies : BodyRead(text)
  \/ BodyFail
  \/ Respond

\* the function of part_005 alone, with the upstream it calls
ClaudeSpec == HttpInit /\ [][ClaudeNext]_vars

\* the calls of DFlowAPIClient.request the stdio server makes, one at a
\* time: tools/call without arguments and resources/read
RequestNext ==
  \/ pc = "idle" /\ \E name \in StdioNames : CallTool(name, Undef)
  \/ pc = "idle" /\ \E uri \in Range(ResourceUris) : ReadResource(uri)
  \/ \E status \in Statuses : FetchResponse(status)
  \/ FetchFail
  \/ TimerFire
  \/ \E text \in Bodies : BodyRead(text)
  \/ BodyFail
  \/ Respond

\* setTimeout: a timer that stays armed fires; the upstream and the
\* transport owe nothing, neither a response nor the end of a body
RequestSpec == Init /\ [][RequestNext]_vars /\ WF_vars(TimerFire)

\* the stdio server, the Netlify mcp function and mcp-api, serving one
\* request after another
ServeNext ==
  \/ pc = "idle" /\ \E name \in StdioNames : CallTool(name, Undef)
  \/ pc = "idle" /\ \E name \in Range(PromptNames) \cup {"no_such_prompt"} :
       \E args \in PromptArgs : GetPrompt(name, args)
  \/ pc = "idle" /\ \E uri \in Range(ResourceUris) \cup {"dflow://api/none"} :
       ReadResource(uri)
  \/ pc = "idle" /\ \E variant \in {"netlify", "mcpapi"} :
       \E ev \in {Malformed("POST", <<"mcp">>)}
                  \cup ParsedEvents(variant, {"POST"}) :
         \E name \in IF ~ev.hasParams THEN {""}
                      ELSE IF ReadsParams(ev.method) THEN HttpNames
                      ELSE {"get_events"} :
           \E args \in IF ev.hasParams /\ ReadsParams(ev.method)
                        THEN HttpArguments(variant, name) ELSE {Undef} :
             HttpRequest(variant, ev, name, args)
  \/ \E status \in Statuses : FetchResponse(status)
  \/ FetchFail
  \/ TimerFire
  \/ \E text \in Bodies : BodyRead(text)
  \/ BodyFail
  \/ Respond

ServeSpec == Init /\ [][ServeNext]_vars

\* ------------------------------------- requests handled at the same time
\* the tools/call requests clients send at once: a known tool or an unknown
\* one, without arguments
ConcNames == {"get_events", UnknownTool}
ConcEvent == Event("POST", <<"mcp">>, TRUE, TRUE, Num(1), "tools/call", TRUE)
ConcReq(variant, name) ==
  IF variant = "stdio" THEN Req("stdio", "tools/call", name, Undef, "")
  ELSE HttpReq(variant, ConcEvent, name, Undef)

\* the handler up to its return or its await: the CallTool handler of the
\* stdio server, exports.handler of mcp-v2-sse
ConcHandler(variant, name) ==
  IF variant = "stdio"
  THEN LET plan == Dispatch(name, ToolArgs(Undef))
       IN IF plan.found THEN Awaits(ClientCall(baseUrl, plan))
          ELSE Done(CallToolResult(name,
                      McpError(MethodNotFound, "Unknown tool: " \o name)))
  ELSE HttpHandler(variant, ConcEvent, name, Undef, catalog[variant])

\* the calls in flight
Flying == {s \in Slots : inflight[s].pc \in {"fetching", "reading"}}

\* a request arrives while others may be in flight; all requests of one
\* process go to the same server
ConcRequest(s, variant, name) ==
  LET h == ConcHandler(variant, name)
  IN /\ inflight[s].pc = "idle"
     /\ \A t \in Slots :
          inflight[t].pc # "idle" => inflight[t].req.variant = variant
     /\ inflight' =
          [inflight EXCEPT ![s] =
             IF h.awaits
             THEN [IdleSlot EXCEPT !.pc = "fetching",
                                   !.req = ConcReq(variant, name),
                                   !.out = <<Issue(h.call)>>,
                                   !.timer = IF h.call.signal THEN "armed"
                                             ELSE "none",
                                   !.among = Cardinality(Flying)]
             ELSE [IdleSlot EXCEPT !.pc = "done",
                                   !.req = ConcReq(variant, name),
                                   !.result = h.result,
                                   !.among = Cardinality(Flying)]]
     /\ UNCHANGED <<config, catalog, pc, req, out, timer, resp, outcome,
                    result, prev, globalResult>>

\* a handler that reads the global after another await, when another call
\* may have assigned it: C22 depends on the read following the assignment
GlobalRead_Stale(before, assigned) == before

\* `result = await apiRequest(...)` and the reads of `result` that build the
\* events run in one turn of the event loop: the read sees what this call
\* assigned, whatever the global held before
GlobalRead(before, assigned) == assigned

\* the awaited call of slot s has ended: request() maps an abort in its
\* catch block, the handler builds its answer; in mcp-v2-sse the value
\* passes through the global
ConcFinish(s, ended, callState, text) ==
  LET c == inflight[s]
      stdio == c.req.variant = "stdio"
      oc == IF ended.kind = "throw" /\ stdio THEN requestCatch(ended)
            ELSE ended
      assigns == ~stdio /\ oc.kind = "return"
      seen == IF assigns THEN Return(GlobalRead(globalResult, oc.value))
              ELSE oc
  IN /\ globalResult' = IF assigns THEN oc.value ELSE globalResult
     /\ inflight' =
          [inflight EXCEPT ![s] =
             [c EXCEPT !.pc = "done",
                       !.outcome = oc,
                       !.timer = IF callState = "aborted" THEN "fired"
                                 ELSE IF @ = "armed" THEN "cleared" ELSE @,
                       !.resp = IF callState = "complete"
                                THEN [@ EXCEPT !.hasBody = TRUE, !.body = text]
                                ELSE @,
                       !.out = [c.out EXCEPT ![1].state = callState],
                       !.result =
                          IF stdio THEN CallToolResult(c.req.name, seen)
                          ELSE ToolsCallAnswer(c.req.variant, c.req.event,
                                               c.req.name, c.req.args, seen)]]

ConcFetchResponse(s, status) ==
  /\ inflight[s].pc = "fetching"
  /\ inflight' =
       [inflight EXCEPT ![s].pc = "reading",
                        ![s].resp = [status |-> status, hasBody |-> FALSE,
                                     body |-> ""],
                        ![s].timer = IF @ = "armed" THEN "cleared" ELSE @,
                        ![s].out[1].state = "responded"]
  /\ UNCHANGED <<config, catalog, pc, req, out, timer, resp, outcome, result,
                 prev, globalResult>>

ConcFetchFail(s) ==
  /\ inflight[s].pc = "fetching"
  /\ ConcFinish(s, Throw("TypeError", "fetch failed"), "failed", "")
  /\ UNCHANGED <<config, catalog, pc, req, out, timer, resp, outcome, result,
                 prev>>

\* the timer of the call of slot s aborts the controller of that call
ConcTimerFire(s) ==
  /\ inflight[s].pc = "fetching"
  /\ inflight[s].timer = "armed"
  /\ ConcFinish(s, Throw("AbortError", "The operation was aborted."),
                "aborted", "")
  /\ UNCHANGED <<config, catalog, pc, req, out, timer, resp, outcome, result,
                 prev>>

ConcBodyRead(s, text) ==
  /\ inflight[s].pc = "reading"
  /\ ConcFinish(s, AfterResponse(inflight[s].resp.status, text), "complete",
                text)
  /\ UNCHANGED <<config, catalog, pc, req, out, timer, resp, outcome, result,
                 prev>>

ConcBodyFail(s) ==
  /\ inflight[s].pc = "reading"
  /\ ConcFinish(s, Throw("TypeError", "terminated"), "failed", "")
  /\ UNCHANGED <<config, catalog, pc, req, out, timer, resp, outcome, result,
                 prev>>

\* the answer of slot s is sent
ConcRespond(s) ==
  /\ inflight[s].pc = "done"
  /\ inflight' = [inflight EXCEPT ![s] = IdleSlot]
  /\ UNCHANGED <<config, catalog, pc, req, out, timer, resp, outcome, result,
                 prev, globalResult>>

ConcNext ==
  \/ \E s \in Slots : \E variant \in {"stdio", "sse"} :
       \E name \in ConcNames : ConcRequest(s, variant, name)
  \/ \E s \in Slots : \E status \in Statuses : ConcFetchResponse(s, status)
  \/ \E s \in Slots : ConcFetchFail(s)
  \/ \E s \in Slots : ConcTimerFire(s)
  \/ \E s \in Slots : \E text \in Bodies : ConcBodyRead(s, text)
  \/ \E s \in Slots : ConcBodyFail(s)
  \/ \E s \in Slots : ConcRespond(s)

ConcSpec == Init /\ [][ConcNext]_vars

\* ------------------------------------------------------------- properties
StdioCall == req.variant = "stdio" /\ req.method = "tools/call"
IsJson(text) == text \in {JsonBody, "null"}
\* the upstream answered 2xx with a JSON body that was read to its end
Answered2xxJson ==
  /\ resp.status \in 200..299
  /\ resp.hasBody
  /\ IsJson(resp.body)
\* position of key k in the object o (0 when absent)
IndexOf(o, k) ==
  IF k \in Keys(o) THEN CHOOSE i \in 1..Len(o) : o[i].k = k ELSE 0

\* C1: in the stdio CallTool handler a tools/call whose name is not in the
\* catalog ends at once in an error result: one text block naming the
\* unknown tool, isError set, no outbound call; the exception never leaves
\* the handler and no success payload is returned.
C1_UnknownToolIsErrorResult ==
  (StdioCall /\ req.name \notin Range(TOOLS)) =>
    /\ pc = "done"
    /\ out = <<>>
    /\ result.kind = "content"
    /\ result.hasIsError /\ result.isError
    /\ result.content =
         <<Text("Error calling " \o req.name
                \o ": MCP error -32601: Unknown tool: " \o req.name)>>

C1_Witness ==
  /\ pc = "done" /\ StdioCall /\ req.name = UnknownTool
  /\ result.isError

\* C2 as stated: one outbound call for a tools/call of a catalog tool, none
\* for every other request of the stdio server.
C2_OnlyToolCallsGoOut ==
  (pc = "done" /\ req.variant = "stdio") =>
    Len(out) = IF req.method = "tools/call" /\ req.name \in Range(TOOLS)
               THEN 1 ELSE 0

\* C2 (amended): while and after the stdio server handles one request, the
\* number of outbound calls issued for it is exactly one when the request is
\* a tools/call of a catalog tool or a resources/read of the events or
\* markets feed, and zero for every other request; a call that failed or
\* timed out is not issued again.
C2_OneCallNoRetry ==
  (pc # "idle" /\ req.variant = "stdio") =>
    Len(out) = IF \/ req.method = "tools/call" /\ req.name \in Range(TOOLS)
                  \/ req.method = "resources/read"
                     /\ req.uri \in {EventsUri, MarketsUri}
               THEN 1 ELSE 0

C2_Witness ==
  /\ pc = "done" /\ StdioCall /\ req.name \in Range(TOOLS)
  /\ Len(out) = 1 /\ out[1].state \in {"failed", "aborted"}

\* the params object the stdio handler hands to get() for the request
GetParams ==
  IF req.method = "resources/read" THEN <<Entry("limit", Num(10))>>
  ELSE LET plan == Dispatch(req.name, ToolArgs(req.args))
       IN IF plan.hasParams THEN plan.params ELSE <<>>

\* C3: the GET that DFlowAPIClient.get(path, params) sends has as query
\* exactly the entries of params whose value is neither undefined nor
\* null, each once, as key=String(value), in the order of params; a params
\* without such an entry gives an empty query.
C3_GetQueryIsDefinedParams ==
  (req.variant = "stdio" /\ Len(out) = 1 /\ out[1].method = "GET") =>
    LET P == GetParams
        Q == out[1].url.query
        Def(v) == v.t \notin {"undefined", "null"}
    IN /\ \A i \in 1..Len(Q) :
            /\ Q[i].k \in Keys(P)
            /\ Def(Get(P, Q[i].k))
            /\ Q[i].v = JSString(Get(P, Q[i].k))
       /\ \A j \in 1..Len(P) :
            Cardinality({i \in 1..Len(Q) : Q[i].k = P[j].k})
              = IF Def(P[j].v) THEN 1 ELSE 0
       /\ \A i, j \in 1..Len(Q) :
            i < j => IndexOf(P, Q[i].k) < IndexOf(P, Q[j].k)
       /\ (\A j \in 1..Len(P) : ~Def(P[j].v)) => Q = <<>>

C3_Witness ==
  /\ req.variant = "stdio" /\ req.name = "get_events" /\ Len(out) = 1
  /\ req.args = Obj(<<Entry("limit", Num(5)), Entry("cursor", Null)>>)
  /\ out[1].url.query = <<Entry("limit", "5")>>

\* C4: in every variant, a tools/call of get_events, get_markets or
\* get_trades whose arguments hold a key with a null value sends a GET
\* whose query does not contain that key.
C4_NullArgOmittedInEveryVariant ==
  (/\ req.name \in {"get_events", "get_markets", "get_trades"}
   /\ Len(out) = 1 /\ out[1].method = "GET") =>
    \A i \in 1..Len(ToolArgs(req.args)) :
      ToolArgs(req.args)[i].v.t = "null" =>
        ToolArgs(req.args)[i].k \notin Keys(out[1].url.query)

\* the fixed path of a POST-routed tool
PostPath(name) ==
  IF name = "get_markets_batch" THEN <<"api", "v1", "markets", "batch">>
  ELSE <<"api", "v1", "filter_outcome_mints">>

\* C5: a tools/call of get_markets_batch or filter_outcome_mints sends a
\* POST to the tool's fixed path under the base URL, without query, whose
\* body is the JSON text of the whole arguments object, "{}" when the
\* arguments are absent.
C5_PostBodyIsArguments ==
  (StdioCall /\ req.name \in {"get_markets_batch", "filter_outcome_mints"}) =>
    /\ Len(out) = 1
    /\ out[1].method = "POST"
    /\ out[1].url.origin = baseUrl.origin
    /\ out[1].url.segs = baseUrl.segs \o PostPath(req.name)
    /\ out[1].url.query = <<>>
    /\ out[1].body.has
    /\ out[1].body.text =
         JSONStringify(IF req.args = Undef THEN Obj(<<>>) ELSE req.args, 0, 0)
    /\ req.args = Undef => out[1].body.text = "{}"
    /\ req.args = Obj(<<Entry("tickers", Arr(<<"A", "B">>))>>)
         => out[1].body.text = "{\"tickers\":[\"A\",\"B\"]}"

C5_Witness ==
  /\ StdioCall /\ req.name = "get_markets_batch" /\ Len(out) = 1
  /\ req.args = Obj(<<Entry("tickers", Arr(<<"A", "B">>))>>)
  /\ out[1].body.text = "{\"tickers\":[\"A\",\"B\"]}"

\* C6: a finished call of DFlowAPIClient.request has returned a value if
\* and only if the upstream answered 2xx with a body that parses as JSON;
\* otherwise it has thrown, with "HTTP <status>: <body>" when a non-2xx
\* answer was read; what it returns is the parsed value, never the raw text
\* of the body and never undefined.
C6_ReturnsIffOkJson ==
  (pc = "done" /\ req.variant = "stdio" /\ Len(out) = 1) =>
    /\ outcome.kind \in {"return", "throw"}
    /\ outcome.kind = "return" <=> Answered2xxJson
    /\ outcome.kind = "return" =>
         /\ outcome.value.t \notin {"undefined", "string"}
         /\ JSONStringify(outcome.value, 0, 0) = resp.body
    /\ (resp.hasBody /\ resp.status \notin 200..299) =>
         outcome = Throw("Error", "HTTP " \o ToString(resp.status) \o ": "
                                  \o resp.body)

C6_Witness ==
  /\ pc = "done" /\ req.variant = "stdio" /\ Len(out) = 1
  /\ resp.status = 200 /\ resp.hasBody /\ resp.body = HtmlBody
  /\ outcome.kind = "throw"

\* C7: when the timer of request() fires while the fetch is still awaited,
\* the fetch is cancelled and the caller gets Error('Request timeout'), not
\* the abort error; once a response has arrived the timer never fires and
\* the call is never reported as a timeout.
C7_TimeoutReportedAsTimeout ==
  /\ timer = "fired" =>
       /\ resp = NoResp
       /\ out[Len(out)].state = "aborted"
       /\ outcome = Throw("Error", "Request timeout")
  /\ resp.status # 0 =>
       /\ timer # "fired"
       /\ outcome.message # "Request timeout"
       /\ out[Len(out)].state # "aborted"
  /\ (pc = "fetching" /\ out[Len(out)].signal) => timer = "armed"

C7_Witness ==
  /\ pc = "done" /\ StdioCall /\ timer = "fired"
  /\ result.content = <<Text("Error calling " \o req.name \o ": Request timeout")>>

\* C8: every result of the stdio CallTool handler has exactly one content
\* block, of type text; it carries the pretty-printed JSON of the upstream
\* result and no error flag when the tool is known and its call succeeded,
\* and the error message with isError true otherwise.
C8_OneTextBlockAndErrorFlag ==
  (pc = "done" /\ StdioCall) =>
    LET ok == req.name \in Range(TOOLS) /\ Answered2xxJson
    IN /\ result.kind = "content"
       /\ Len(result.content) = 1
       /\ result.content[1].type = "text"
       /\ (result.hasIsError /\ result.isError) <=> ~ok
       /\ ok => /\ ~result.hasIsError
                /\ result.content[1].text = JSONStringify(outcome.value, 2, 0)
                /\ resp.body = JsonBody =>
                     result.content[1].text
                       = "{\n  \"events\": [\n    \"A\",\n    \"B\"\n  ]\n}"
       /\ (~ok /\ req.name \in Range(TOOLS)) =>
            result.content[1].text
              = "Error calling " \o req.name \o ": " \o outcome.message

C8_Witness ==
  /\ pc = "done" /\ StdioCall /\ resp.body = JsonBody /\ resp.status = 200
  /\ ~result.hasIsError
  /\ result.content[1].text = "{\n  \"events\": [\n    \"A\",\n    \"B\"\n  ]\n}"

\* C9: no request changes a catalog, and every tools/list, whatever came
\* before it, answers the whole catalog of its server: same length, names
\* and order.
C9_CatalogStable ==
  /\ catalog = InitialCatalog
  /\ (pc = "done" /\ result.kind = "tools") =>
       result.tools = InitialCatalog[req.variant]

C9_Witness ==
  /\ pc = "done" /\ result.kind = "tools" /\ prev = "error"
  /\ result.tools = TOOLS

\* C10: the catalog the stdio server answers to tools/list has exactly 25
\* entries.
C10_TwentyFiveTools ==
  (pc = "done" /\ req.variant = "stdio" /\ req.method = "tools/list") =>
    Len(result.tools) = 25

\* C18 as stated: a tools/call of get_event with arguments
\* {event_id: E, withNestedMarkets: B} issues one GET to
\* {base}/api/v1/event/E whose query is withNestedMarkets=B alone, empty
\* when withNestedMarkets is absent, and never holds event_id; the JSON body
\* of a 2xx answer comes back as one text block.
C18_GetEventCall ==
  (/\ StdioCall /\ req.name = "get_event"
   /\ "event_id" \in Keys(ToolArgs(req.args))) =>
    LET a == ToolArgs(req.args)
        B == Get(a, "withNestedMarkets")
    IN /\ Len(out) = 1
       /\ out[1].method = "GET"
       /\ out[1].url.origin = baseUrl.origin
       /\ out[1].url.segs
            = baseUrl.segs \o <<"api", "v1", "event", JSString(Get(a, "event_id"))>>
       /\ out[1].url.query
            = IF B.t \in {"undefined", "null"} THEN <<>>
              ELSE <<Entry("withNestedMarkets", JSString(B))>>
       /\ (pc = "done" /\ Answered2xxJson) =>
            result.content = <<Text(JSONStringify(outcome.value, 2, 0))>>

\* the stdio tools that address a market or event by mint
ByMintTools ==
  {"get_market_by_mint", "get_trades_by_mint",
   "get_forecast_percentile_history_by_mint",
   "get_market_candlesticks_by_mint", "get_live_data_by_mint"}

\* C19: while and after the stdio server handles a tools/call of a by-mint
\* tool, exactly one outbound call has been issued for it, a GET whose path
\* holds the segment by-mint followed by String(mint_address); no other
\* call precedes it.
C19_ByMintSingleGet ==
  (StdioCall /\ req.name \in ByMintTools) =>
    /\ Len(out) = 1
    /\ out[1].method = "GET"
    /\ \E i \in 1..(Len(out[1].url.segs) - 1) :
         /\ out[1].url.segs[i] = "by-mint"
         /\ out[1].url.segs[i + 1]
              = JSString(Get(ToolArgs(req.args), "mint_address"))

C19_Witness ==
  /\ pc = "done" /\ StdioCall /\ req.name = "get_trades_by_mint"
  /\ req.args = Obj(<<Entry("mint_address", Str("A")), Entry("limit", Num(5))>>)
  /\ Len(out) = 1 /\ out[1].state = "complete"
  /\ out[1].url.segs = baseUrl.segs \o baseUrl.segs
                         \o <<"api", "v1", "trades", "by-mint", "A">>

\* the path-segment keys of the stdio tools that destructure their arguments
PathKeys(name) ==
  CASE name \in {"get_trades_by_mint", "get_forecast_percentile_history_by_mint",
                 "get_market_candlesticks_by_mint", "get_live_data_by_mint"}
         -> {"mint_address"}
    [] name = "get_forecast_percentile_history" -> {"series_ticker", "event_id"}
    [] name \in {"get_event_candlesticks", "get_market_candlesticks"} -> {"ticker"}
    [] name = "get_live_data_by_event" -> {"event_ticker"}
    [] OTHER -> {}

\* C20: for a tools/call of a stdio tool that destructures its arguments,
\* no path-segment key is in the query of the outbound GET, every other
\* supplied argument whose value is neither undefined nor null is in it
\* exactly once as key=String(value), nothing else is in it, and it is
\* empty when only path-segment arguments are supplied.
C20_RestIsQuery ==
  (StdioCall /\ PathKeys(req.name) # {}) =>
    LET a == ToolArgs(req.args)
        Q == out[1].url.query
    IN /\ Len(out) = 1
       /\ \A i \in 1..Len(Q) : Q[i].k \notin PathKeys(req.name)
       /\ \A j \in 1..Len(a) :
            Cardinality({i \in 1..Len(Q) : Q[i] = Entry(a[j].k, JSString(a[j].v))})
              = IF a[j].k \notin PathKeys(req.name)
                   /\ a[j].v.t \notin {"undefined", "null"}
                THEN 1 ELSE 0
       /\ \A i \in 1..Len(Q) : Q[i].k \in Keys(a)
       /\ Keys(a) \subseteq PathKeys(req.name) => Q = <<>>

C20_Witness ==
  /\ StdioCall /\ req.name = "get_forecast_percentile_history"
  /\ req.args = Obj(<<Entry("series_ticker", Str("A")), Entry("event_id", Num(5))>>)
  /\ Len(out) = 1 /\ out[1].url.query = <<>>

\* a POST whose body holds a JSON object
ParsedPost ==
  pc # "idle" /\ req.event.httpMethod = "POST" /\ req.event.parses

\* C11: in the Netlify functions mcp, api-mcp, mcp-v2-sse and
\* mcp-v2-bootstrap a POST whose body JSON.parse rejects is answered at
\* once with a JSON-RPC error of code -32700 and id null, and no outbound
\* call is issued.
C11_MalformedIsParseError ==
  (/\ pc # "idle"
   /\ req.variant \in {"netlify", "apimcp", "sse", "bootstrap"}
   /\ req.event.httpMethod = "POST" /\ ~req.event.parses) =>
    /\ pc = "done"
    /\ out = <<>>
    /\ result.kind = "rpcerror"
    /\ result.code = -32700
    /\ result.http.id = Null

C11_Witness ==
  /\ pc = "done" /\ req.variant = "apimcp"
  /\ req.event = Malformed("POST", <<"mcp">>)
  /\ result.code = -32700 /\ result.http.status = 400 /\ out = <<>>

\* C12 as stated: the answer to a POST whose body holds a JSON object with
\* an id carries that id unchanged, whatever the path taken and whatever
\* the id, 0 and "" included.
C12_IdEchoedVerbatim ==
  (pc = "done" /\ ParsedPost /\ req.event.id # Undef) =>
    result.http.id = req.event.id

\* C13 as stated: in the Netlify mcp function a POST with method
\* tools/list, tools.list, getModels, initialize, connectMCPServer or
\* server/info is answered with a result, one with tools/call or tools.call
\* and params reaches the switch on the tool name, and none of them is
\* answered with -32601.
C13_RecognizedSpellingsRouted ==
  (pc = "done" /\ ParsedPost /\ req.variant = "netlify") =>
    /\ req.event.method \in {"tools/list", "tools.list"} => result.kind = "tools"
    /\ req.event.method \in {"getModels", "initialize", "connectMCPServer",
                             "server/info"} => result.kind = "info"
    /\ (req.event.method \in {"tools/call", "tools.call"} /\ req.event.hasParams) =>
         /\ result.kind \in {"content", "rpcerror"}
         /\ result.kind = "rpcerror" => result.code = InternalError
         /\ req.name \in Range(NetlifyTOOLS) => Len(out) = 1

\* the request of the current state with its method respelled with a slash
Slashed ==
  [req.event EXCEPT !.method = IF @ = "tools.list" THEN "tools/list"
                                ELSE "tools/call"]

\* C14: in the api-mcp function and the Deno server a POST with method
\* tools.list or tools.call is handled as the same request with tools/list
\* or tools/call would be: the same answer at once or the same outbound
\* call, and after the call the same answer to the same upstream outcome,
\* for every id, tool name and arguments.
C14_DottedIsSlashed ==
  (/\ ParsedPost /\ req.variant \in {"apimcp", "deno"}
   /\ req.event.method \in {"tools.list", "tools.call"}) =>
    LET h == HttpHandler(req.variant, Slashed, req.name, req.args,
                         catalog[req.variant])
    IN /\ h.awaits <=> out # <<>>
       /\ ~h.awaits => pc = "done" /\ result = h.result
       /\ h.awaits =>
            /\ Len(out) = 1
            /\ [out[1] EXCEPT !.state = "pending"] = Issue(h.call)
            /\ pc = "done" =>
                 result = ToolsCallAnswer(req.variant, Slashed, req.name,
                                          req.args, outcome)

C14_Witness ==
  /\ pc = "done" /\ req.variant = "deno" /\ req.event.method = "tools.call"
  /\ req.event.id = Num(0) /\ req.name = "get_events"
  /\ req.args = Obj(<<Entry("limit", Num(5))>>)
  /\ out[1].url.query = <<Entry("limit", "5")>>
  /\ result.kind = "content" /\ result.http.id = Num(0)

\* C15 as stated: in the mcp function, its predecessor, mcp-api and
\* mcp-v2-sse a well-formed POST whose method no branch handles is answered
\* with -32601, and error.data.available_methods lists exactly the methods
\* that have a branch.
C15_AvailableMethodsAreRouted ==
  (/\ pc = "done" /\ ParsedPost
   /\ req.variant \in {"netlify", "pred", "mcpapi", "sse"}
   /\ req.event.jsonrpc /\ req.event.method # ""
   /\ req.event.path # <<"mcp", "v2", "bootstrap">>
   /\ HttpRoute(req.variant, req.event.method) = "notfound") =>
    /\ result.kind = "rpcerror"
    /\ result.code = -32601
    /\ result.http.data.kind = "methods"
    /\ \A m \in RpcMethods \cup Range(result.http.data.methods) :
         m \in Range(result.http.data.methods)
           <=> HttpRoute(req.variant, m) # "notfound"

\* C16 as stated: every HTTP adapter answers OPTIONS at once, whatever the
\* body, with status 200 and the Access-Control-Allow-Origin, -Methods and
\* -Headers headers, and issues no outbound call.
C16_OptionsShortCircuits ==
  (pc # "idle" /\ req.event.httpMethod = "OPTIONS") =>
    /\ pc = "done"
    /\ out = <<>>
    /\ result.http.status = 200
    /\ result.http.cors = "full"

\* C17 as stated: in every HTTP adapter that has a tools/call branch, a
\* tools/call with params that fails (unknown tool, upstream answer not
\* 2xx, transport failure) is answered with error -32603, the id of the
\* request, and error.data = {tool: name, arguments: the arguments}.
C17_ToolFailureCarriesData ==
  (/\ pc = "done" /\ ParsedPost
   /\ req.variant \in {"netlify", "pred", "apimcp", "mcpapi", "deno"}
   /\ req.event.jsonrpc /\ req.event.hasParams
   /\ HttpRoute(req.variant, req.event.method) = "call"
   /\ (outcome.kind = "throw" \/ out = <<>>)) =>
    /\ result.kind = "rpcerror"
    /\ result.code = -32603
    /\ result.http.id = req.event.id
    /\ result.http.data.kind = "tool"
    /\ result.http.data.tool = req.name
    /\ result.http.data.arguments
         \in IF req.args = Undef THEN {Undef, Obj(<<>>)} ELSE {req.args}

\* the arguments a stdio tool puts into the path of its call
SegmentKeys(name) ==
  CASE name = "get_event" -> {"event_id"}
    [] name = "get_market" -> {"market_id"}
    [] name = "get_market_by_mint" -> {"mint_address"}
    [] name = "get_series_by_ticker" -> {"series_ticker"}
    [] OTHER -> PathKeys(name)

C27_CatalogMatchesDispatcher ==
  /\ \A v \in {"stdio", "netlify"} : \A i, j \in 1..Len(catalog[v]) :
       i # j => catalog[v][i] # catalog[v][j]
  /\ (pc # "idle" /\ req.variant \in {"stdio", "netlify"}
      /\ req.method = "tools/call") =>
       /\ req.name \in Range(catalog[req.variant]) <=> Len(out) = 1
       /\ req.name \in Range(catalog[req.variant]) =>
            /\ Dispatch(req.name, ToolArgs(req.args)).found
                 \/ req.variant # "stdio"
            /\ NetlifyDispatch(req.name, ToolArgs(req.args)).found
                 \/ req.variant # "netlify"
            /\ pc = "done" =>
                 /\ result.message # "Unknown tool: " \o req.name
                 /\ result.content
                      # <<Text("Error calling " \o req.name
                               \o ": MCP error -32601: Unknown tool: "
                               \o req.name)>>

C27_Witness ==
  /\ pc = "done" /\ req.variant = "netlify" /\ req.method = "tools/call"
  /\ req.name = "get_live_data" /\ Len(out) = 1 /\ result.kind = "content"

\* the path the stdio handler hands to the client for the request
ToolPath ==
  IF req.method = "resources/read" THEN API \o ResourceFeed(req.uri)
  ELSE Dispatch(req.name, ToolArgs(req.args)).path.segs

\* C23 as stated: every outbound call of the stdio server, GET or POST, goes
\* to config.apiUrl (the default base URL when the config has none)
\* followed by the path of the tool, under the timer of the client.
C23_CallsTargetConfiguredBase ==
  (req.variant = "stdio" /\ Len(out) = 1) =>
    LET base == IF config.hasApiUrl THEN config.apiUrl ELSE BASE_URL
    IN /\ out[1].url.origin = base.origin
       /\ out[1].url.segs = base.segs \o ToolPath
       /\ out[1].signal

\* C24 as stated: a tools/call of the Netlify mcp function whose tool name
\* is also in the catalog of the stdio server issues the call the stdio
\* dispatcher issues for the same arguments: same HTTP method, same path,
\* same query.
C24_NetlifyCallsAsCanonical ==
  (/\ pc # "idle" /\ req.variant = "netlify" /\ Len(out) = 1
   /\ req.name \in Range(TOOLS)) =>
    LET canonical == ClientCall(DFlowAPIClient(NoConfig),
                                Dispatch(req.name, ToolArgs(req.args)))
    IN /\ out[1].method = canonical.method
       /\ out[1].url.segs = canonical.url.segs
       /\ out[1].url.query = canonical.url.query

\* C30 as stated: the Netlify mcp function and its predecessor never answer
\* -32700 to a POST whose body is well-formed JSON.
C30_ParseErrorOnlyForMalformed ==
  (pc = "done" /\ ParsedPost /\ req.variant \in {"netlify", "pred"}) =>
    result.code # ParseError

\* a tools/call that reaches handleToolsCall of mcp-v2-sse
SseToolsCall ==
  /\ pc = "done" /\ ParsedPost /\ req.variant = "sse"
  /\ req.event.path # <<"mcp", "v2", "bootstrap">>
  /\ req.event.method = "tools/call"

\* the events of the answer are tool_started, one of tool_result and
\* tool_error, tool_completed, in this order; success is true exactly with
\* tool_result, and tool_result comes only with a known tool whose one
\* outbound call was answered 2xx with JSON
ThreeEvents ==
  /\ result.kind = "sse"
  /\ Len(result.content) = 3
  /\ result.content[1].type = "tool_started"
  /\ result.content[2].type \in {"tool_result", "tool_error"}
  /\ result.content[3].type = "tool_completed"
  /\ result.content[3].text = "true" <=> result.content[2].type = "tool_result"
  /\ result.content[3].text \in {"true", "false"}
  /\ result.content[2].type = "tool_result" <=>
       /\ req.name \in Range(NetlifyTOOLS)
       /\ Len(out) = 1
       /\ Answered2xxJson

ClaudeAnswered ==
  /\ pc = "done" /\ req.variant = "claude"
  /\ req.event.httpMethod = "POST" /\ req.event.parses /\ ~req.event.isNull

\* a handler was called for the request
ClaudeDispatched == result.handler # "" \/ result = ClaudeInternalError

\* C29: in the Claude-Desktop-format function a request is dispatched only
\* if it has type 'rpc', an args array and a method that is one of the six
\* handlers; a request with any other method string is answered
\* {success: false, error: 'Method not found'} with data.available_methods
\* the six names in order; a tools/call takes the tool name from args[0] and
\* the arguments from args[1].
C29_DispatchOnlySixMethods ==
  ClaudeAnswered =>
    /\ ClaudeDispatched =>
         /\ req.event.type = "rpc" /\ req.event.args = "array"
         /\ req.event.method \in Range(ClaudeMethods)
    /\ (req.event.method # "" /\ req.event.method \notin Range(ClaudeMethods)) =>
         /\ result.success = "false" /\ result.message = "Method not found"
         /\ result.http.data.methods = ClaudeMethods
    /\ (result.handler = "tools/call" /\ Len(out) = 1) =>
         /\ req.event.args0.t = "string"
         /\ [out[1] EXCEPT !.state = "pending"] =
              Issue(ClaudeDispatch(req.event.args0,
                                   ToolArgs(req.event.args1)).call)

\* the part of C29 the code keeps: what is dispatched has type 'rpc' and an
\* args array, the six handlers answer their own method, every method that
\* is neither one of the six nor a property name inherited from
\* Object.prototype is answered Method not found with the six names, and
\* tools/call reads args[0] and args[1]
C29_ExceptInheritedNames ==
  ClaudeAnswered =>
    /\ ClaudeDispatched =>
         /\ req.event.type = "rpc" /\ req.event.args = "array"
         /\ req.event.method \in Range(ClaudeMethods) \cup InheritedNames
    /\ (req.event.method \notin Range(ClaudeMethods) \cup InheritedNames) =>
         /\ result.success = "false" /\ result.message = "Method not found"
         /\ result.http.data.methods = ClaudeMethods
    /\ (result.handler = "tools/call" /\ Len(out) = 1) =>
         /\ req.event.args0.t = "string"
         /\ [out[1] EXCEPT !.state = "pending"] =
              Issue(ClaudeDispatch(req.event.args0,
                                   ToolArgs(req.event.args1)).call)

\* the request {type: 'rpc', args: [], method: 'toString'} is answered 200
\* with the string "[object Object]"
C29_InheritedDispatched ==
  /\ ClaudeAnswered /\ req.event.method = "toString"
  /\ req.event.type = "rpc" /\ req.event.args = "array"
  /\ result.http.status = 200 /\ result.handler = "toString"
  /\ result.message = "[object Object]" /\ result.success = "absent"

\* a completed call of request() has its timer cleared or fired, never
\* left armed
TimerClearedWhenDone ==
  (pc = "done" /\ Len(out) = 1 /\ req.variant = "stdio") =>
    timer \in {"cleared", "fired"}

\* C26: every call of DFlowAPIClient.request eventually completes once its
\* timer is left to fire, whether the upstream never responds (the call is
\* awaiting fetch) or sends the response headers and never finishes the
\* body (the call is reading the body), and it completes with its timer
\* cleared.
C26_EveryRequestCompletes ==
  (pc \in {"fetching", "reading"}) ~> (pc = "done" /\ TimerClearedWhenDone)

\* the part of C26 the code keeps: a call that awaits fetch leaves that
\* await, by a response, a transport failure or the timer
C26_FetchEnds == (pc = "fetching") ~> (pc \in {"reading", "done"})

\* the request ended in one of the failures of the taxonomy: a parse error,
\* an unknown method, an unknown tool, an upstream error or a timeout
ListedFailure ==
  \/ req.variant # "stdio" /\ ~req.event.parses
  \/ req.variant # "stdio" /\ req.event.parses
       /\ HttpRoute(req.variant, req.event.method) = "notfound"
  \/ req.method \in {"tools/call", "tools.call"} /\ out = <<>>
       /\ req.name \notin Range(catalog[req.variant])
       /\ (req.variant # "stdio" => req.event.hasParams)
  \/ Len(out) = 1 /\ outcome.kind = "throw"

\* the handler has returned an answer that reports the failure: an error
\* result in stdio, a JSON-RPC error in an HTTP answer
ReturnedFailure ==
  IF req.variant = "stdio"
  THEN result.kind = "content" /\ result.hasIsError /\ result.isError
  ELSE result.kind = "rpcerror" /\ result.http.status \in {200, 400, 500}

\* between two requests nothing of the last one is left
Fresh ==
  /\ req = NoReq /\ out = <<>> /\ timer = "none" /\ resp = NoResp
  /\ outcome = NoOutcome /\ result = NoResult
  /\ catalog = InitialCatalog /\ config \in Configs

OwnOutcome(c) ==
  CASE c.out[1].state = "complete" -> AfterResponse(c.resp.status, c.resp.body)
    [] c.out[1].state = "aborted" -> Throw("Error", "Request timeout")
    [] c.resp = NoResp -> Throw("TypeError", "fetch failed")
    [] OTHER -> Throw("TypeError", "terminated")

\* the answer a request gets when it is handled alone with that outcome
OwnAnswer(c) ==
  IF c.req.variant = "stdio" THEN CallToolResult(c.req.name, c.outcome)
  ELSE ToolsCallAnswer(c.req.variant, c.req.event, c.req.name, c.req.args,
                       c.outcome)

\* C22: requests handled at the same time by one process do not interfere:
\* the answer of each is the one its own request and the outcome of its own
\* outbound call (reply, error or timeout) determine, no tools/call answers
\* with the upstream result of another call, and a call is aborted only by
\* its own timer, which leaves the calls of the other requests in flight
\* with their timers armed.
C22_ConcurrentRequestsIndependent ==
  \A s \in Slots :
    LET c == inflight[s]
    IN /\ (c.pc = "done" /\ Len(c.out) = 1) =>
            /\ c.outcome = OwnOutcome(c)
            /\ c.result = OwnAnswer(c)
       /\ (c.pc = "done" /\ c.out = <<>>) =>
            c.result = ConcHandler(c.req.variant, c.req.name).result
       /\ (c.pc # "idle" /\ Len(c.out) = 1) =>
            /\ c.out[1].state = "aborted" <=> c.timer = "fired"
            /\ c.out[1].state = "pending" <=> c.pc = "fetching"
            /\ (c.pc = "fetching" /\ c.req.variant = "stdio") =>
                 c.timer = "armed"

\* two tools/call of mcp-v2-sse in flight together have both been answered,
\* each with the upstream result of its own call, and the global holds the
\* one assigned last
C22_Witness ==
  /\ inflight[1].pc = "done" /\ inflight[2].pc = "done"
  /\ inflight[1].req.variant = "sse" /\ inflight[2].among = 1
  /\ inflight[1].resp.body = JsonBody /\ inflight[2].resp.body = "null"
  /\ inflight[1].resp.status = 200 /\ inflight[2].resp.status = 200
  /\ globalResult = Null
  /\ inflight[1].result.content[2].text # inflight[2].result.content[2].text
  /\ inflight[1].result.content[2].type = "tool_result"
  /\ inflight[2].result.content[2].type = "tool_result"

====
